---- MODULE Spec2Model ----
(***************************************************************************)
(* Liveness Decision Engine of the face-verification app.                  *)
(*                                                                         *)
(*   Spec       LivenessApp + LivenessChallenger (js/main.js): attempts,   *)
(*              the challenge state machine and its timers.                *)
(*   SpecScore  LivenessApp.calculateCombinedScore as a pure function.     *)
(*   SpecFusion AntiSpoofing.analyze and the write of its overallScore     *)
(*              into the Security Score Set.                               *)
(*   SpecGesture  the blink and head-turn verifiers on the detections      *)
(*              handleDetection submits.                                   *)
(*   SpecHistory the rolling histories of the challenger and analyzers.    *)
(*   SpecCycle  the analysis cycles of startPassiveAnalysis and their      *)
(*              suspension on the FaceMesh inference.                      *)
(*   SpecUnavailable  Spec when a model could not be loaded.               *)
(*   SpecLive   an attempt the user leaves alone, with fair scheduling of  *)
(*              its timers and intervals.                                  *)
(*   SpecSmile, SpecBlink  the smile verifier, and the blink verifier on   *)
(*              coarse landmarks.                                          *)
(*   SpecTemporal  PassiveLiveness.scoreTemporalFast on a frame history.   *)
(*   SpecSubScore  the banded sub-scores of the passive analyzers.         *)
(*   SpecLong   Spec over a longer stretch of time.                        *)
(*   SpecMask   SpecFusion on depth results around the mask thresholds.    *)
(*   SpecDenseTurn  the head-turn verifier on high-resolution detections.  *)
(*   SpecRetry  the challenge timers with the verifiers attached.          *)
(*   SpecCapture  detections built from the keypoints of the last          *)
(*              analysis cycle.                                            *)
(*   SpecThrottle  the frame skipping of the analyzers over the cycles.    *)
(*                                                                         *)
(* Time is counted in milliseconds.  JavaScript numbers are IEEE-754       *)
(* doubles; the arithmetic of calculateCombinedScore is reproduced bit for *)
(* bit on fixed-point integers (section "Double arithmetic").              *)
(***************************************************************************)
EXTENDS Integers, Naturals, Sequences, FiniteSets, TLC

(***************************************************************************)
(* Double arithmetic.                                                      *)
(* A non-negative double below 512 that is 0 or at least 2^-5 is an        *)
(* integer multiple of 2^-57.  Such a number is held as the integer        *)
(* X = value * 2^57, written in base 2^22 as <<h, m, l>> (X = h*B^2 + m*B  *)
(* + l), so that every intermediate stays below 2^31.                      *)
(***************************************************************************)
LimbBase == 4194304

Pow2(n) == 2 ^ n

\* number of binary digits of n (0 for n = 0)
BitLen(n) == CHOOSE k \in 0..31 : n < Pow2(k) /\ (k = 0 \/ n >= Pow2(k - 1))

FxZero == <<0, 0, 0>>

\* carry propagation after limb-wise arithmetic
FxNorm(x) ==
    LET l  == x[3] % LimbBase
        c1 == x[3] \div LimbBase
        m  == (x[2] + c1) % LimbBase
        c2 == (x[2] + c1) \div LimbBase
    IN  <<x[1] + c2, m, l>>

\* round-to-nearest, ties-to-even, to 53 significant bits
FxRound53(x) ==
    IF x[1] = 0 THEN x
    ELSE LET len == 44 + BitLen(x[1])
             s   == IF len > 53 THEN len - 53 ELSE 0
         IN  IF s = 0 THEN x
             ELSE LET r    == x[3] % Pow2(s)
                      half == Pow2(s - 1)
                      odd  == (x[3] \div Pow2(s)) % 2 = 1
                      up   == r > half \/ (r = half /\ odd)
                      base == x[3] - r
                  IN  FxNorm(<<x[1], x[2], IF up THEN base + Pow2(s) ELSE base>>)

\* the double product n * w of an integer n in 0..511 and a double w < 1
FxMulInt(n, w) == FxRound53(FxNorm(<<n * w[1], n * w[2], n * w[3]>>))

\* the double sum x + y
FxAdd(x, y) == FxRound53(FxNorm(<<x[1] + y[1], x[2] + y[2], x[3] + y[3]>>))

\* Math.round: floor(x + 0.5), computed exactly (0.5 is 2^56 = 4096 * B^2)
MathRound(x) == (x[1] + 4096) \div 8192

(***************************************************************************)
(* Security Score Aggregator  (LivenessApp.calculateCombinedScore)         *)
(***************************************************************************)
Dims == {"active", "passive", "antiSpoof", "depth", "eyeReflection", "microExpression"}

\* the literals 0.30, 0.25, 0.25, 0.10, 0.05, 0.05 as the doubles they denote:
\*   0.30 -> 43234556422756760 * 2^-57     0.25 -> 2^55 * 2^-57
\*   0.10 -> 14411518807585588 * 2^-57     0.05 -> 7205759403792794 * 2^-57
weights ==
    [active          |-> <<2457, 2516582, 1677720>>,
     passive         |-> <<2048, 0, 0>>,
     antiSpoof       |-> <<2048, 0, 0>>,
     depth           |-> <<819, 838860, 3355444>>,
     eyeReflection   |-> <<409, 2516582, 1677722>>,
     microExpression |-> <<409, 2516582, 1677722>>]

calculateCombinedScore(sc) ==
    LET score ==
          FxAdd(FxAdd(FxAdd(FxAdd(FxAdd(
              FxMulInt(sc.active, weights.active),
              FxMulInt(sc.passive, weights.passive)),
              FxMulInt(sc.antiSpoof, weights.antiSpoof)),
              FxMulInt(sc.depth, weights.depth)),
              FxMulInt(sc.eyeReflection, weights.eyeReflection)),
              FxMulInt(sc.microExpression, weights.microExpression))
    IN  MathRound(score)

ZeroScores ==
    [active |-> 0, passive |-> 0, antiSpoof |-> 0, depth |-> 0,
     eyeReflection |-> 0, microExpression |-> 0]

(***************************************************************************)
(* Program constants                                                       *)
(***************************************************************************)
None == "none"

\* LivenessChallenger.challenges: id -> duration (ms)
duration == [blink |-> 10000, smile |-> 8000, turnHead |-> 12000]

challenges == DOMAIN duration

requiredChallenges == 2

\* setTimeout delays of startVerification and handleChallengeComplete
StartDelay == 2000

SuccessDelay == 1000

RetryDelay == 2000

\* acceptance threshold of completeVerification
AcceptThreshold == 80

\* Time advances in steps of the smallest timer delay; every delay and every
\* duration is a multiple of it.  The 100 ms detection and progress intervals
\* run faster than that and may fire any number of times between two steps.
Quantum == SuccessDelay

(***************************************************************************)
(* Bounds                                                                  *)
(***************************************************************************)
\* number of button clicks (start, cancel, retry, new verification) the
\* user makes
MaxClicks == 3

\* time horizon of a run, in steps of Quantum
MaxTicks == 10

\* the user reacts (performs the gesture, leaves the results or welcome
\* screen while an attempt is left) within this many steps of Quantum after
\* the prompt, or not at all
MaxUserDelay == 0

(***************************************************************************)
(* Inputs                                                                  *)
(***************************************************************************)
\* one analysis cycle's readings for the five passive dimensions
Reading(v) ==
    [passive |-> v, antiSpoof |-> v, depth |-> v, eyeReflection |-> v,
     microExpression |-> v]

AnalyzerReadings == {Reading(70), Reading(71)}

(***************************************************************************)
(* State                                                                   *)
(***************************************************************************)
VARIABLES
    screen,                  \* the active screen (showScreen)
    isVerifying,             \* LivenessApp.isVerifying
    completedChallenges,     \* LivenessApp.completedChallenges
    securityScores,          \* LivenessApp.securityScores
    passiveAnalysisInterval, \* TRUE iff the analysis interval is set
    detectionInterval,       \* TRUE iff FaceDetector.detectionInterval is set
    pendingStart,            \* a startVerification suspended on its awaits
    pendingComplete,         \* completeVerification calls suspended on
                             \* stopRecording: their success arguments
    currentChallenge,        \* LivenessChallenger.currentChallenge (id)
    isActive,                \* LivenessChallenger.isActive
    challengeHistory,        \* ids occurring in LivenessChallenger.challengeHistory
    timers,                  \* pending setTimeout timers, in registration order
    elapsed,                 \* Date.now() - startTime while a challenge is active
    verified,                \* history: verifier successes since the attempt began
    clicks,                  \* history: number of button clicks so far
    now,                     \* history: time since the page was loaded
    returned,                \* history: descriptors getRandomChallenge has
                             \* returned since the used-set was last empty
    lastFailed,              \* history: the challenge that failed last, until
                             \* the next challenge start
    analysisHistory,         \* AntiSpoofing.analysisHistory: the photoScore of
                             \* each entry, in thousandths
    frameCount,              \* AntiSpoofing.frameCount
    cachedResult,            \* AntiSpoofing.cachedResult
    landmarkHistory,         \* LivenessChallenger.landmarkHistory
    blinkCount,              \* LivenessChallenger.blinkCount
    headTurnStates,          \* LivenessChallenger.headTurnStates
    submitted,               \* history: the detections handed to the verifier
                             \* since the current challenge started
    baseline,                \* LivenessChallenger.baseline
    frameHistory,            \* PassiveLiveness.frameHistory
    depthHistory,            \* DepthEstimator.depthHistory
    reflectionHistory,       \* EyeReflection.reflectionHistory
    microHistory,            \* MicroExpression.landmarkHistory
    inserted,                \* history: the items pushed to a rolling history
                             \* since the histories were last emptied
    depthFrameCount,         \* DepthEstimator.frameCount, modulo 2
    depthCached,             \* DepthEstimator.cachedResult
    inflight,                \* analysis cycles suspended on estimateFaces
    latestKeypoints,         \* LivenessApp.latestKeypoints
    capture,                 \* what the keypoints last captured show (followed
                             \* in SpecCapture)
    detectorLoaded,          \* FaceDetector.isModelLoaded
    meshLoaded,              \* DepthEstimator.isModelLoaded
    throttle,                \* frameCount (skipFrameCount) and cachedResult of
                             \* PassiveLiveness, EyeReflection, MicroExpression
    evaluations,             \* history: the analysis cycles run, each
                             \* analyzer's last evaluation and the calls it
                             \* has skipped since
    event                    \* what the last step reported outward

appVars == <<screen, isVerifying, completedChallenges, securityScores,
             passiveAnalysisInterval, detectionInterval, pendingStart,
             pendingComplete>>

challengerVars == <<currentChallenge, isActive, challengeHistory, timers,
                    elapsed>>

histVars == <<verified, clicks, now, returned, lastFailed>>

fusionVars == <<analysisHistory, frameCount, cachedResult>>

gestureVars == <<landmarkHistory, blinkCount, headTurnStates, submitted, baseline>>

analyzerVars == <<frameHistory, depthHistory, reflectionHistory, microHistory,
                  inserted>>

depthVars == <<depthFrameCount, depthCached>>

cycleVars == <<inflight, latestKeypoints, capture>>

modelVars == <<detectorLoaded, meshLoaded>>

throttleVars == <<throttle, evaluations>>

vars == <<appVars, challengerVars, histVars, fusionVars, gestureVars,
          analyzerVars, depthVars, cycleVars, modelVars, throttleVars,
          event>>

NoEvent == [type |-> "none"]

\* a result that is null
NoResult == [set |-> FALSE]

\* the analyzers startPassiveAnalysis calls, and those whose frame counter
\* and cache are held in throttle
Analyzers == {"depth", "passive", "antiSpoof", "eyeReflection", "microExpression"}

NoThrottle ==
    [a \in {"passive", "eyeReflection", "microExpression"} |->
        [frameCount |-> 0, cachedResult |-> NoResult]]

NoEvaluations ==
    [cycles |-> 0, last |-> [a \in Analyzers |-> NoResult],
     run |-> [a \in Analyzers |-> 0]]

\* a setTimeout: kind "timeout" (challenge timeout of initChallengeState) or
\* "next" (a scheduled startNextChallenge(arg)); rem is the time left.
\* owner is history: whether the challenge the timeout was armed for is
\* still the current one ("live"), got its completion callback ("done"), was
\* overwritten by another start without one ("lost") or was discarded by
\* LivenessChallenger.reset ("reset").
Timer(k, d, a, o) == [kind |-> k, rem |-> d, arg |-> a, owner |-> o]

MarkOwner(ts, from, to) ==
    [i \in DOMAIN ts |->
        IF ts[i].owner = from THEN [ts[i] EXCEPT !.owner = to] ELSE ts[i]]

RemoveAt(ts, i) == [j \in 1..(Len(ts) - 1) |-> IF j < i THEN ts[j] ELSE ts[j + 1]]

Due(ts) == {i \in DOMAIN ts : ts[i].rem = 0}

FirstDue(ts) == CHOOSE i \in Due(ts) : \A j \in Due(ts) : i <= j

\* LivenessChallenger.baseline with no measurement taken
NoBaseline ==
    [set |-> FALSE, eyeDistance |-> 0, mouthWidth |-> 0, faceWidth |-> 0]

\* no keypoints captured yet
NoCapture == [id |-> 0, closed |-> FALSE]

\* headTurnStates with no position seen
NoTurns == [left |-> FALSE, center |-> FALSE, right |-> FALSE]

\* resetTracking that carries the blink count over
resetTrackingKeepCount ==
    /\ landmarkHistory' = <<>>
    /\ blinkCount' = blinkCount
    /\ headTurnStates' = NoTurns
    /\ submitted' = <<>>
    /\ baseline' = NoBaseline

\* the tracking variables as the constructor, initChallengeState and reset
\* set them
resetTracking ==
    /\ landmarkHistory' = <<>>
    /\ blinkCount' = 0
    /\ headTurnStates' = NoTurns
    /\ submitted' = <<>>
    /\ baseline' = NoBaseline

\* the state after construction, but for the score set
InitButScores ==
    /\ screen = "welcome"
    /\ isVerifying = FALSE
    /\ completedChallenges = 0
    /\ passiveAnalysisInterval = FALSE
    /\ detectionInterval = FALSE
    /\ pendingStart = FALSE
    /\ pendingComplete = <<>>
    /\ currentChallenge = None
    /\ isActive = FALSE
    /\ challengeHistory = {}
    /\ timers = <<>>
    /\ elapsed = 0
    /\ verified = 0
    /\ clicks = 0
    /\ now = 0
    /\ returned = {}
    /\ lastFailed = None
    /\ analysisHistory = <<>>
    /\ frameCount = 0
    /\ cachedResult = NoResult
    /\ landmarkHistory = <<>>
    /\ blinkCount = 0
    /\ headTurnStates = NoTurns
    /\ submitted = <<>>
    /\ baseline = NoBaseline
    /\ frameHistory = <<>>
    /\ depthHistory = <<>>
    /\ reflectionHistory = <<>>
    /\ microHistory = <<>>
    /\ inserted = 0
    /\ depthFrameCount = 0
    /\ depthCached = NoResult
    /\ inflight = 0
    /\ latestKeypoints = None
    /\ capture = NoCapture
    /\ throttle = NoThrottle
    /\ evaluations = NoEvaluations
    /\ event = NoEvent

\* loadModels has loaded the BlazeFace and the FaceMesh model
ModelsLoaded == detectorLoaded = TRUE /\ meshLoaded = TRUE

Init ==
    /\ InitButScores
    /\ securityScores = ZeroScores
    /\ ModelsLoaded

(***************************************************************************)
(* LivenessChallenger                                                      *)
(***************************************************************************)
\* getRandomChallenge: the descriptors whose id is not in challengeHistory
availableChallenges == {c \in challenges : c \notin challengeHistory}

\* getRandomChallenge: the values it can return.  When nothing is available
\* it clears challengeHistory and returns null.
getRandomChallenge ==
    IF availableChallenges = {} THEN {None} ELSE availableChallenges

\* initChallengeState, with currentChallenge already set to c; ts are the
\* pending timers.  Arms the timeout.
initChallengeState(c, ts, random) ==
    /\ currentChallenge' = c
    /\ isActive' = TRUE
    /\ elapsed' = 0
    /\ resetTracking
    /\ timers' = Append(MarkOwner(ts, "live", "lost"),
                        Timer("timeout", duration[c], None, "live"))
    /\ lastFailed' = None
    /\ event' = [type |-> "started", id |-> c,
                 wasIdle |-> (~isActive /\ currentChallenge = None),
                 repeated |-> (random /\ c \in returned),
                 afterFailureOf |-> lastFailed,
                 progress |-> (\/ blinkCount > 0 \/ landmarkHistory # <<>>
                               \/ headTurnStates # NoTurns \/ baseline.set)]

\* handleChallengeComplete(result): the timer it schedules
handleChallengeComplete(success, id) ==
    IF success THEN Timer("next", SuccessDelay, None, None)
               ELSE Timer("next", RetryDelay, id, None)

\* completeChallenge(success, onComplete) when currentChallenge is set;
\* onComplete is always handleChallengeComplete
completeChallenge(success, ts) ==
    /\ isActive' = FALSE
    /\ challengeHistory' = challengeHistory \cup {currentChallenge}
    /\ completedChallenges' =
          IF success THEN completedChallenges + 1 ELSE completedChallenges
    /\ timers' = Append(MarkOwner(ts, "live", "done"),
                        handleChallengeComplete(success, currentChallenge))
    /\ currentChallenge' = None
    /\ elapsed' = 0
    /\ lastFailed' = IF success THEN None ELSE currentChallenge
    /\ event' = [type |-> "result", id |-> currentChallenge,
                 success |-> success, elapsed |-> elapsed]

\* startChallengeExplicit(challenge, ...)
startChallengeExplicit(c, ts) ==
    /\ initChallengeState(c, ts, FALSE)
    /\ UNCHANGED <<challengeHistory, completedChallenges, returned>>

\* startChallenge: getRandomChallenge, then either the all-complete callback
\* or initChallengeState
startChallenge(ts) ==
    \E c \in getRandomChallenge :
        IF c = None
        THEN \* onComplete({success: true, allChallengesComplete: true})
             /\ challengeHistory' = {}
             /\ currentChallenge' = None
             /\ completedChallenges' = completedChallenges + 1
             /\ timers' = Append(MarkOwner(ts, "live", "lost"),
                                 handleChallengeComplete(TRUE, None))
             /\ returned' = {}
             /\ event' = [type |-> "result", id |-> None, success |-> TRUE,
                          elapsed |-> 0]
             /\ UNCHANGED <<isActive, elapsed, lastFailed, gestureVars>>
        ELSE /\ initChallengeState(c, ts, TRUE)
             /\ returned' = returned \cup {c}
             /\ UNCHANGED <<challengeHistory, completedChallenges>>

\* LivenessChallenger.reset
resetChallenger ==
    /\ currentChallenge' = None
    /\ challengeHistory' = {}
    /\ isActive' = FALSE
    /\ elapsed' = 0
    /\ returned' = {}
    /\ resetTracking
    /\ timers' = MarkOwner(timers, "live", "reset")

(***************************************************************************)
(* LivenessApp                                                             *)
(***************************************************************************)
\* Math.round((completedChallenges / requiredChallenges) * 100)
activeScore(completed) == (200 * completed + requiredChallenges) \div (2 * requiredChallenges)

\* finalSuccess with the threshold excluded
finalSuccessStrict(success, combinedScore) == success /\ combinedScore > AcceptThreshold

\* const finalSuccess = success && combinedScore >= 80
finalSuccess(success, combinedScore) == success /\ combinedScore >= AcceptThreshold

\* completeVerification(success) up to its await; by is history: the caller
completeVerificationBegin(success, by) ==
    /\ isVerifying' = FALSE
    /\ passiveAnalysisInterval' = FALSE
    /\ pendingComplete' = Append(pendingComplete, [success |-> success, by |-> by])
    /\ event' = [type |-> "finalize", success |-> success, by |-> by,
                 completed |-> completedChallenges, verified |-> verified]

\* completeVerification after the await: stop detection, compute the scores
\* and show the result
CompleteVerificationFinish ==
    /\ pendingComplete # <<>>
    /\ LET success == Head(pendingComplete).success
           scores  == [securityScores EXCEPT !.active = activeScore(completedChallenges)]
           combinedScore == calculateCombinedScore(scores)
       IN  /\ securityScores' = scores
           /\ event' = [type |-> "shown", success |-> success,
                        by |-> Head(pendingComplete).by,
                        accept |-> finalSuccess(success, combinedScore),
                        combined |-> combinedScore]
    /\ pendingComplete' = Tail(pendingComplete)
    /\ detectionInterval' = FALSE
    /\ screen' = "results"
    /\ UNCHANGED <<isVerifying, completedChallenges, passiveAnalysisInterval,
                   pendingStart, challengerVars, histVars, fusionVars,
                   gestureVars, analyzerVars, depthVars, cycleVars,
                   modelVars,
                   throttleVars>>

\* AntiSpoofing.reset
resetAntiSpoofing ==
    /\ analysisHistory' = <<>>
    /\ cachedResult' = NoResult
    /\ frameCount' = 0

\* the reset of DepthEstimator, PassiveLiveness, EyeReflection and
\* MicroExpression: their histories
resetAnalyzers ==
    /\ frameHistory' = <<>>
    /\ depthHistory' = <<>>
    /\ reflectionHistory' = <<>>
    /\ microHistory' = <<>>
    /\ inserted' = 0
    /\ depthFrameCount' = 0
    /\ depthCached' = NoResult
    /\ throttle' = NoThrottle
    /\ evaluations' = [evaluations EXCEPT !.last = NoEvaluations.last,
                                          !.run = NoEvaluations.run]

\* resetApp
resetApp ==
    /\ resetChallenger
    /\ resetAntiSpoofing
    /\ resetAnalyzers
    /\ detectionInterval' = FALSE
    /\ passiveAnalysisInterval' = FALSE
    /\ isVerifying' = FALSE
    /\ completedChallenges' = 0
    /\ securityScores' = ZeroScores
    /\ screen' = "welcome"
    /\ lastFailed' = None
    /\ event' = NoEvent
    /\ UNCHANGED <<pendingStart, pendingComplete, verified, now, cycleVars,
                   modelVars>>

\* startVerification up to its first await (start button, retry button)
startVerificationBegin ==
    /\ clicks < MaxClicks
    /\ clicks' = clicks + 1
    /\ ~pendingStart
    /\ pendingComplete = <<>>
    /\ screen' = "camera"
    /\ pendingStart' = TRUE
    /\ event' = NoEvent
    /\ UNCHANGED <<isVerifying, completedChallenges, securityScores,
                   passiveAnalysisInterval, detectionInterval,
                   pendingComplete, challengerVars, verified, now, returned,
                   lastFailed, fusionVars, gestureVars, analyzerVars,
                   depthVars, cycleVars, modelVars,
                   throttleVars>>

ClickStart == screen = "welcome" /\ startVerificationBegin

ClickRetry == screen = "results" /\ startVerificationBegin

\* startVerification after the camera is ready: detection, passive analysis,
\* attempt state, and the timer of the first challenge
StartVerificationResume ==
    /\ pendingStart
    /\ pendingStart' = FALSE
    \* FaceDetector.startDetection returns at once without a loaded model
    /\ detectionInterval' = IF detectorLoaded THEN TRUE ELSE detectionInterval
    /\ passiveAnalysisInterval' = TRUE
    /\ isVerifying' = TRUE
    /\ completedChallenges' = 0
    /\ timers' = Append(timers, Timer("next", StartDelay, None, None))
    /\ verified' = 0
    /\ lastFailed' = None
    /\ event' = NoEvent
    /\ UNCHANGED <<screen, securityScores, pendingComplete, currentChallenge,
                   isActive, challengeHistory, elapsed, clicks, now, returned,
                   fusionVars, gestureVars, analyzerVars, depthVars,
                   cycleVars, modelVars,
                   throttleVars>>

\* startVerification when getUserMedia rejects: back to the welcome screen
StartVerificationFail ==
    /\ pendingStart
    /\ pendingStart' = FALSE
    /\ screen' = "welcome"
    /\ event' = NoEvent
    /\ UNCHANGED <<isVerifying, completedChallenges, securityScores,
                   passiveAnalysisInterval, detectionInterval,
                   pendingComplete, challengerVars, histVars, fusionVars,
                   gestureVars, analyzerVars, depthVars, cycleVars,
                   modelVars,
                   throttleVars>>

\* cancelVerification (cancel button of the camera screen)
ClickCancel ==
    /\ screen = "camera"
    /\ ~pendingStart
    /\ clicks < MaxClicks
    /\ clicks' = clicks + 1
    /\ IF isVerifying
       THEN /\ completeVerificationBegin(FALSE, "cancelVerification")
            /\ UNCHANGED <<screen, completedChallenges, securityScores,
                           detectionInterval, pendingStart, challengerVars,
                           verified, now, returned, lastFailed, fusionVars,
                           gestureVars, analyzerVars, depthVars, cycleVars,
                           modelVars,
                   throttleVars>>
       ELSE resetApp

\* new-verification button of the results screen
ClickNewVerification ==
    /\ screen = "results"
    /\ clicks < MaxClicks
    /\ clicks' = clicks + 1
    /\ resetApp

\* the dimensions an analysis cycle writes: without the FaceMesh model
\* estimateDepth returns its null cachedResult, and the depth,
\* eye-reflection and micro-expression assignments are skipped
writtenDims ==
    IF meshLoaded THEN Dims \ {"active"} ELSE {"passive", "antiSpoof"}

\* one tick of the passive-analysis interval: the analyzers' latest readings
\* overwrite the passive dimensions
PassiveTick ==
    /\ passiveAnalysisInterval
    /\ isVerifying
    /\ \E r \in AnalyzerReadings :
          securityScores' = [d \in Dims |->
              IF d \in writtenDims THEN r[d] ELSE securityScores[d]]
    /\ event' = NoEvent
    /\ UNCHANGED <<screen, isVerifying, completedChallenges,
                   passiveAnalysisInterval, detectionInterval, pendingStart,
                   pendingComplete, challengerVars, histVars, fusionVars,
                   gestureVars, analyzerVars, depthVars, cycleVars,
                   modelVars,
                   throttleVars>>

\* handleDetection(data) on a detection tick; verdict is what the current
\* descriptor's verifier returns for the submitted landmarks
Frame ==
    /\ detectionInterval
    /\ \E faceDetected \in BOOLEAN, multipleFaces \in BOOLEAN, verdict \in BOOLEAN :
          /\ isActive /\ faceDetected /\ ~multipleFaces      \* handleDetection
          /\ isActive /\ currentChallenge # None              \* processDetection
          /\ verdict /\ elapsed <= MaxUserDelay * Quantum
          /\ completeChallenge(TRUE, timers)
          /\ verified' = verified + 1
    /\ UNCHANGED <<screen, isVerifying, securityScores,
                   passiveAnalysisInterval, detectionInterval, pendingStart,
                   pendingComplete, clicks, now, returned, fusionVars,
                   gestureVars, analyzerVars, depthVars, cycleVars,
                   modelVars,
                   throttleVars>>

\* startNextChallenge that starts a challenge however many are completed
startNextChallengeAlways(retryChallengeId, ts) ==
    /\ IF retryChallengeId # None
       THEN startChallengeExplicit(retryChallengeId, ts)
       ELSE startChallenge(ts)
    /\ UNCHANGED <<isVerifying, passiveAnalysisInterval, pendingComplete>>

\* startNextChallenge(retryChallengeId), run by a "next" timer; ts are the
\* timers left
startNextChallenge(retryChallengeId, ts) ==
    IF completedChallenges >= requiredChallenges
    THEN /\ completeVerificationBegin(TRUE, "startNextChallenge")
         /\ timers' = ts
         /\ UNCHANGED <<completedChallenges, currentChallenge, isActive,
                        challengeHistory, elapsed, returned, lastFailed,
                        gestureVars>>
    ELSE /\ IF retryChallengeId # None
            THEN startChallengeExplicit(retryChallengeId, ts)
            ELSE startChallenge(ts)
         /\ UNCHANGED <<isVerifying, passiveAnalysisInterval,
                        pendingComplete>>

\* the challenge timeout callback of initChallengeState
challengeTimeout(t, ts) ==
    IF isActive /\ currentChallenge # None
    THEN completeChallenge(FALSE, ts)
    ELSE /\ timers' = ts
         /\ event' = [type |-> "expired", owner |-> t.owner]
         /\ UNCHANGED <<completedChallenges, currentChallenge, isActive,
                        challengeHistory, elapsed, lastFailed>>

\* the earliest-registered timer that is due fires
TimerFire ==
    /\ Due(timers) # {}
    /\ LET i  == FirstDue(timers)
           t  == timers[i]
           ts == RemoveAt(timers, i)
       IN  IF t.kind = "timeout"
           THEN /\ challengeTimeout(t, ts)
                /\ UNCHANGED <<isVerifying, passiveAnalysisInterval,
                               pendingComplete, returned, gestureVars>>
           ELSE startNextChallenge(t.arg, ts)
    /\ UNCHANGED <<screen, securityScores, detectionInterval, pendingStart,
                   verified, clicks, now, fusionVars, analyzerVars, depthVars,
                   cycleVars, modelVars,
                   throttleVars>>

\* time passes: no timer is due, no suspended handler is about to resume, and
\* the 200 ms analysis interval has fired
Tick ==
    /\ timers # <<>>
    /\ Due(timers) = {}
    /\ pendingComplete = <<>>
    /\ ~pendingStart
    /\ (passiveAnalysisInterval /\ isVerifying) =>
          \E r \in AnalyzerReadings : securityScores.passive = r.passive
    /\ timers' = [i \in DOMAIN timers |->
                     [timers[i] EXCEPT !.rem = timers[i].rem - Quantum]]
    /\ (screen # "camera" /\ clicks < MaxClicks) => MaxUserDelay >= 1
    /\ elapsed' = IF isActive THEN elapsed + Quantum ELSE elapsed
    /\ now < MaxTicks * Quantum
    /\ now' = now + Quantum
    /\ event' = NoEvent
    /\ UNCHANGED <<appVars, currentChallenge, isActive, challengeHistory,
                   verified, clicks, returned, lastFailed, fusionVars,
                   gestureVars, analyzerVars, depthVars, cycleVars,
                   modelVars,
                   throttleVars>>

Next ==
    \/ ClickStart
    \/ ClickRetry
    \/ StartVerificationResume
    \/ StartVerificationFail
    \/ ClickCancel
    \/ ClickNewVerification
    \/ CompleteVerificationFinish
    \/ PassiveTick
    \/ Frame
    \/ TimerFire
    \/ Tick

Spec == Init /\ [][Next]_vars

(***************************************************************************)
(* SpecLive: one attempt in which no verifier returns true, followed       *)
(* without a limit on time.  The browser runs every timer that is due and  *)
(* the analysis interval, and time always passes: these steps are fair.    *)
(* The user starts the attempt and then leaves it alone.                   *)
(***************************************************************************)
\* Tick, with the history variable now stopping at MaxTicks * Quantum
TickLive ==
    /\ timers # <<>>
    /\ Due(timers) = {}
    /\ pendingComplete = <<>>
    /\ ~pendingStart
    /\ (passiveAnalysisInterval /\ isVerifying) =>
          \E r \in AnalyzerReadings : securityScores.passive = r.passive
    /\ timers' = [i \in DOMAIN timers |->
                     [timers[i] EXCEPT !.rem = timers[i].rem - Quantum]]
    /\ elapsed' = IF isActive THEN elapsed + Quantum ELSE elapsed
    /\ now' = IF now < MaxTicks * Quantum THEN now + Quantum ELSE now
    /\ event' = NoEvent
    /\ UNCHANGED <<appVars, currentChallenge, isActive, challengeHistory,
                   verified, clicks, returned, lastFailed, fusionVars,
                   gestureVars, analyzerVars, depthVars, cycleVars,
                   modelVars,
                   throttleVars>>

NextLive ==
    \/ ClickStart
    \/ StartVerificationResume
    \/ PassiveTick
    \/ TimerFire
    \/ TickLive

SpecLive ==
    /\ Init
    /\ [][NextLive]_vars
    /\ WF_vars(TimerFire)
    /\ WF_vars(TickLive)
    /\ WF_vars(PassiveTick)
    /\ WF_vars(StartVerificationResume)

(***************************************************************************)
(* SpecLong: Spec with time running on: the history variable now stops at  *)
(* MaxTicks * Quantum while the timers keep counting down, so that         *)
(* attempts last as long as their challenges take.                         *)
(***************************************************************************)
NextLong ==
    \/ ClickStart
    \/ ClickRetry
    \/ StartVerificationResume
    \/ StartVerificationFail
    \/ ClickCancel
    \/ ClickNewVerification
    \/ CompleteVerificationFinish
    \/ PassiveTick
    \/ Frame
    \/ TimerFire
    \/ TickLive

SpecLong == Init /\ [][NextLong]_vars

(***************************************************************************)
(* SpecUnavailable: the app when loadModels could not load the BlazeFace   *)
(* model, the FaceMesh model, or both.                                     *)
(***************************************************************************)
\* loadModels gave up at faceDetector.initialize (nothing is loaded), or
\* depthEstimator.initialize failed and returned false
InitUnavailable ==
    /\ InitButScores
    /\ securityScores = ZeroScores
    /\ detectorLoaded \in BOOLEAN
    /\ meshLoaded = FALSE

SpecUnavailable == InitUnavailable /\ [][Next]_vars

(***************************************************************************)
(* SpecScore: calculateCombinedScore on Security Score Sets                *)
(***************************************************************************)
\* the Security Score Sets the function is applied to
ScoreSets ==
    [active : {0, 50, 100}, passive : {38, 70, 71, 100},
     antiSpoof : {70, 71, 100}, depth : {70, 71, 98, 100},
     eyeReflection : {70, 71, 87, 100}, microExpression : {17, 70, 71, 100}]

InitScore ==
    /\ InitButScores
    /\ securityScores \in ScoreSets
    /\ ModelsLoaded

\* one call of calculateCombinedScore on the current score set
CombineScores ==
    /\ event = NoEvent
    /\ event' = [type |-> "combined",
                 value |-> calculateCombinedScore(securityScores)]
    /\ UNCHANGED <<appVars, challengerVars, histVars, fusionVars, gestureVars,
                   analyzerVars, depthVars, cycleVars, modelVars,
                   throttleVars>>

NextScore == CombineScores

SpecScore == InitScore /\ [][NextScore]_vars

(***************************************************************************)
(* SpecFusion: AntiSpoofing.analyze (unnamed/part_000) as called by the    *)
(* analysis interval of startPassiveAnalysis.  Sub-scores are in           *)
(* thousandths, scores of other analyzers in hundredths as they report     *)
(* them, facial features in thousandths.                                   *)
(***************************************************************************)
Min(a, b) == IF a < b THEN a ELSE b

Max(a, b) == IF a > b THEN a ELSE b

maxHistory == 10

\* number of analyze calls between two resets
MaxFrames == 6

\* DepthEstimator.calculateScoreFast(features), as estimateDepth reports it
\* (depthScore: Math.round(depthScore * 100))
calculateScoreFast(features) ==
    Min((IF features.noseRatio > 50 THEN 25 ELSE 0)
        + (IF features.noseRatio > 100 THEN 15 ELSE 0)
        + (IF features.zVariance > 10 THEN 20 ELSE 0)
        + (IF features.zVariance > 30 THEN 10 ELSE 0)
        + 30, 100)

\* estimateDepth's result for a face with the given features
depthResult(features) ==
    [set |-> TRUE, face |-> TRUE, depthScore |-> calculateScoreFast(features),
     features |-> features]

\* what estimateDepth can hand to analyze: null, the no-face result, a flat
\* face and a face with relief
DepthResults ==
    {NoResult, [set |-> TRUE, face |-> FALSE]}
      \cup {depthResult(f) : f \in {[noseRatio |-> 0, zVariance |-> 0],
                                    [noseRatio |-> 150, zVariance |-> 60]}}

\* what PassiveLiveness.analyze can hand to analyze: null or a result with
\* its moireScore and temporalScore
PassiveResults ==
    {NoResult, [set |-> TRUE, moireScore |-> 40, temporalScore |-> 20],
     [set |-> TRUE, moireScore |-> 100, temporalScore |-> 100]}

\* what the pixel loops of detectPhotoFast and detectCutoutFast find in the
\* frame
Images ==
    [lighting : BOOLEAN, skin : BOOLEAN, sharp : BOOLEAN,
     rectangularEdges : {0, 5}, totalEdges : {10}]

detectPhotoFast(img, d) ==
    Min((IF d.set /\ d.face THEN 300 + 5 * d.depthScore ELSE 500)
        + (IF img.lighting THEN 100 ELSE 0)
        + (IF img.skin THEN 200 ELSE 0)
        + (IF img.sharp THEN 100 ELSE 0), 1000)

detectScreenFast(p) ==
    IF p.set
    THEN IF p.moireScore < 60 THEN 5 * p.moireScore ELSE 10 * p.moireScore
    ELSE 500

\* detectMaskFast with the score built up from 0
detectMaskFastFromZero(d) ==
    IF ~(d.set /\ d.face)
    THEN 500
    ELSE Min((IF d.features.zVariance > 50 THEN 250 ELSE 0)
                 + (IF d.features.noseRatio > 80 /\ d.features.noseRatio < 250
                    THEN 250 ELSE 0), 1000)

detectMaskFast(d) ==
    IF ~(d.set /\ d.face)
    THEN 500
    ELSE Min(500 + (IF d.features.zVariance > 50 THEN 250 ELSE 0)
                 + (IF d.features.noseRatio > 80 /\ d.features.noseRatio < 250
                    THEN 250 ELSE 0), 1000)

detectDeepfakeFast(p) == IF p.set THEN 10 * p.temporalScore ELSE 500

detectCutoutFast(img) ==
    IF img.totalEdges > 0
    THEN 1000 - Min((2000 * img.rectangularEdges) \div img.totalEdges, 600)
    ELSE 700

\* AntiSpoofing.addToHistory
addToHistory(h, x) ==
    IF Len(h) + 1 > maxHistory THEN Tail(Append(h, x)) ELSE Append(h, x)

RECURSIVE SumSeq(_)
SumSeq(q) == IF q = <<>> THEN 0 ELSE Head(q) + SumSeq(Tail(q))

RECURSIVE SumSquares(_)
SumSquares(q) == IF q = <<>> THEN 0 ELSE Head(q) * Head(q) + SumSquares(Tail(q))

\* calculateTemporalFast on history h: the bonus, in thousandths, as the
\* fraction num / den.  With n recent entries the variance of their
\* photoScores is v / n^2 millionths, v = n * sum of squares - (sum)^2.
calculateTemporalFast(h) ==
    IF Len(h) < 3
    THEN [num |-> 500, den |-> 1]
    ELSE LET recent == SubSeq(h, Max(1, Len(h) - 4), Len(h))
             n == Len(recent)
             v == n * SumSquares(recent) - SumSeq(recent) * SumSeq(recent)
         IN  IF v >= 100000 * n * n           \* variance / 0.2 >= 0.5
             THEN [num |-> 500, den |-> 1]
             ELSE [num |-> 200000 * n * n - v, den |-> 200 * n * n]

\* result.overallScore of analyze
overallScore(photoScore, screenScore, maskScore, deepfakeScore, cutoutScore, temporalBonus) ==
    LET k == 25 * photoScore + 25 * screenScore + 20 * maskScore
             + 15 * deepfakeScore + 15 * cutoutScore
    IN  (2 * (k * temporalBonus.den + 10 * temporalBonus.num)
            + 1000 * temporalBonus.den) \div (2000 * temporalBonus.den)

\* the five sub-scores analyze computes for one frame
subScores(img, d, p) ==
    [photoScore |-> detectPhotoFast(img, d), screenScore |-> detectScreenFast(p),
     maskScore |-> detectMaskFast(d), deepfakeScore |-> detectDeepfakeFast(p),
     cutoutScore |-> detectCutoutFast(img)]

\* the sub-score each label of result.attacksDetected stands for
labelScore ==
    [PHOTO_ATTACK |-> "photoScore", SCREEN_REPLAY |-> "screenScore",
     MASK_DETECTED |-> "maskScore", DEEPFAKE_SUSPECTED |-> "deepfakeScore"]

\* result.attacksDetected of analyze: the labels pushed for sub-scores sc
attacksDetected(sc) == {l \in DOMAIN labelScore : sc[labelScore[l]] < 500}

\* AntiSpoofing.analyze(videoElement, canvas, depthResult, passiveResult) of
\* an initialized analyzer: what it returns, with the new history
analyze(img, d, p) ==
    IF (frameCount + 1) % 3 # 0 /\ cachedResult.set
    THEN [result |-> cachedResult, history |-> analysisHistory, skipped |-> TRUE]
    ELSE LET photoScore == detectPhotoFast(img, d)
             h == addToHistory(analysisHistory, photoScore)
             overall == overallScore(photoScore, detectScreenFast(p), detectMaskFast(d),
                                     detectDeepfakeFast(p), detectCutoutFast(img),
                                     calculateTemporalFast(h))
         IN  [result |-> [set |-> TRUE, overallScore |-> overall,
                          isReal |-> overall > 80,
                          scores |-> subScores(img, d, p),
                          attacksDetected |-> attacksDetected(subScores(img, d, p))],
              history |-> h, skipped |-> FALSE]

InitFusion == Init

\* the anti-spoofing step of one tick of the analysis interval
AntiSpoofTick ==
    /\ frameCount < MaxFrames
    /\ \E img \in Images, d \in DepthResults, p \in PassiveResults :
          LET a == analyze(img, d, p)
          IN  /\ frameCount' = frameCount + 1
              /\ analysisHistory' = a.history
              /\ cachedResult' = a.result
              /\ securityScores' =
                    [securityScores EXCEPT !.antiSpoof = a.result.overallScore]
              /\ event' = [type |-> "antiSpoof", skipped |-> a.skipped,
                           entries |-> Len(a.history), result |-> a.result]
    /\ UNCHANGED <<screen, isVerifying, completedChallenges,
                   passiveAnalysisInterval, detectionInterval, pendingStart,
                   pendingComplete, challengerVars, histVars, gestureVars,
                   analyzerVars, depthVars, cycleVars, modelVars,
                   throttleVars>>

\* resetApp, as far as the analyzer and the score set go
AntiSpoofReset ==
    /\ frameCount > 0
    /\ resetAntiSpoofing
    /\ securityScores' = ZeroScores
    /\ event' = NoEvent
    /\ UNCHANGED <<screen, isVerifying, completedChallenges,
                   passiveAnalysisInterval, detectionInterval, pendingStart,
                   pendingComplete, challengerVars, histVars, gestureVars,
                   analyzerVars, depthVars, cycleVars, modelVars,
                   throttleVars>>

NextFusion ==
    \/ AntiSpoofTick
    \/ AntiSpoofReset

SpecFusion == InitFusion /\ [][NextFusion]_vars

(***************************************************************************)
(* SpecMask: AntiSpoofing.analyze on depth results whose features range    *)
(* over both sides of the limits detectMaskFast tests, on one frame and    *)
(* without a passive result.                                               *)
(***************************************************************************)
\* depth results around zVariance 0.05 and noseRatio 0.08 and 0.25, the
\* no-face result and null
MaskDepthResults ==
    {NoResult, [set |-> TRUE, face |-> FALSE]}
      \cup {depthResult([noseRatio |-> n, zVariance |-> z]) :
                n \in (78..82) \cup (248..252), z \in {0, 49, 50, 51, 100}}

MaskImage ==
    [lighting |-> TRUE, skin |-> TRUE, sharp |-> TRUE, rectangularEdges |-> 0,
     totalEdges |-> 10]

InitMask == Init

\* the anti-spoofing step of one tick of the analysis interval
MaskTick ==
    /\ frameCount < MaxFrames
    /\ \E d \in MaskDepthResults :
          LET a == analyze(MaskImage, d, NoResult)
          IN  /\ frameCount' = frameCount + 1
              /\ analysisHistory' = a.history
              /\ cachedResult' = a.result
              /\ securityScores' =
                    [securityScores EXCEPT !.antiSpoof = a.result.overallScore]
              /\ event' = [type |-> "antiSpoof", skipped |-> a.skipped,
                           entries |-> Len(a.history), result |-> a.result,
                           depthResult |-> d]
    /\ UNCHANGED <<screen, isVerifying, completedChallenges,
                   passiveAnalysisInterval, detectionInterval, pendingStart,
                   pendingComplete, challengerVars, histVars, gestureVars,
                   analyzerVars, depthVars, cycleVars, modelVars,
                   throttleVars>>

NextMask ==
    \/ MaskTick
    \/ AntiSpoofReset

SpecMask == InitMask /\ [][NextMask]_vars

(***************************************************************************)
(* SpecGesture: the blink and head-turn verifiers of LivenessChallenger on *)
(* the detections handleDetection submits.  A dense detection (FaceMesh    *)
(* keypoints, isHighRes) is given by the distances verifyBlink measures:   *)
(* the two eye openings and the eye width.  A coarse detection (BlazeFace) *)
(* is its landmark array <<rightEye, leftEye, nose, mouth, rightEar,       *)
(* leftEar>> of points <<x, y>>.  faceCount is the number of faces the     *)
(* detector found in the frame.  Ratios are compared in hundredths.        *)
(***************************************************************************)
maxHistoryLength == 30

blinkRequired == 2

\* verifyBlink: an average eye aspect ratio below 0.15 counts as closed
closedEAR == 15

\* verifyHeadTurn: leftThreshold, rightThreshold, centerThreshold
leftThreshold == -35

rightThreshold == 35

centerThreshold == 15

\* the detections submitted while one challenge is followed
MaxVerifyFrames == 4

\* the detections submitted while a smile challenge is followed
MaxSmileFrames == 6

\* verifySmile: smileThreshold 1.15
smileThreshold == 115

Abs(x) == IF x < 0 THEN -x ELSE x

\* Math.sqrt on the perfect squares the inputs produce
Sqrt(n) == CHOOSE r \in 0..n : r * r = n

calculateDistance(point1, point2) ==
    LET dx == point1[1] - point2[1]
        dy == point1[2] - point2[2]
    IN  Sqrt(dx * dx + dy * dy)

\* LivenessChallenger.addToHistory with the newest entry dropped when full
addToLandmarkHistoryKeepOld(h, landmarks) ==
    IF Len(h) >= maxHistoryLength THEN h ELSE Append(h, landmarks)

\* LivenessChallenger.addToHistory
addToLandmarkHistory(h, landmarks) ==
    LET pushed == Append(h, landmarks)
    IN  IF Len(pushed) > maxHistoryLength THEN Tail(pushed) ELSE pushed

Dense(leftOpen, rightOpen) ==
    [faceCount |-> 1, isHighRes |-> TRUE, leftOpen |-> leftOpen,
     rightOpen |-> rightOpen, eyeWidth |-> 100]

\* dense detections: eyes open, closed, and on either side of the threshold
DenseDetections == {Dense(30, 30), Dense(10, 10), Dense(15, 15), Dense(14, 15)}

Coarse(noseX) ==
    [faceCount |-> 1, isHighRes |-> FALSE,
     landmarks |-> <<<<10, 20>>, <<30, 20>>, <<noseX, 30>>, <<20, 40>>,
                     <<5, 25>>, <<35, 25>>>>]

\* coarse detections: the nose 8, 7, 0, 3 twentieths of the eye distance off
\* the eye centre, and a detection without landmarks
CoarseDetections ==
    {Coarse(12), Coarse(13), Coarse(20), Coarse(23), Coarse(28)}
        \cup {[faceCount |-> 1, isHighRes |-> FALSE, landmarks |-> <<>>]}

\* avgEAR < 0.15, with avgEAR = (leftEAR + rightEAR) / 2
eyesClosed(det) ==
    100 * (det.leftOpen + det.rightOpen) < 2 * closedEAR * det.eyeWidth

\* what a verifier leaves behind: its return value and the tracking state
Verdict(ok, h, b, t) ==
    [ok |-> ok, landmarkHistory |-> h, blinkCount |-> b, headTurnStates |-> t,
     baseline |-> baseline]

\* verifyBlink(detectionData)
verifyBlink(det) ==
    IF det.isHighRes
    THEN LET b == IF eyesClosed(det) THEN blinkCount + 1 ELSE blinkCount
         IN  Verdict(b >= blinkRequired, landmarkHistory, b, headTurnStates)
    ELSE IF Len(det.landmarks) < 6
    THEN Verdict(FALSE, landmarkHistory, blinkCount, headTurnStates)
    ELSE LET h == addToLandmarkHistory(landmarkHistory, det.landmarks)
         IN  IF Len(h) < 3
             THEN Verdict(FALSE, h, blinkCount, headTurnStates)
             ELSE LET prev1 == h[Len(h) - 1]
                      prev2 == h[Len(h) - 2]
                      currentEyeDistance ==
                          calculateDistance(det.landmarks[1], det.landmarks[2])
                      prev1EyeDistance == calculateDistance(prev1[1], prev1[2])
                      prev2EyeDistance == calculateDistance(prev2[1], prev2[2])
                      b == IF /\ 100 * prev1EyeDistance < 85 * currentEyeDistance
                              /\ 100 * prev2EyeDistance > 95 * prev1EyeDistance
                           THEN blinkCount + 1 ELSE blinkCount
                  IN  Verdict(b >= blinkRequired, h, b, headTurnStates)

\* verifyHeadTurn: twice the nose offset and the eye distance of a coarse
\* detection; normalizedOffset = noseOffset / eyeDistance
noseOffset2(det) ==
    2 * det.landmarks[3][1] - (det.landmarks[1][1] + det.landmarks[2][1])

eyeDistance(det) == calculateDistance(det.landmarks[1], det.landmarks[2])

isLeft(det) == 100 * noseOffset2(det) < 2 * leftThreshold * eyeDistance(det)

isRight(det) == 100 * noseOffset2(det) > 2 * rightThreshold * eyeDistance(det)

\* the centre test with the threshold itself counted as centre
isCenterInclusive(det) == 100 * Abs(noseOffset2(det)) <= 2 * centerThreshold * eyeDistance(det)

isCenter(det) == 100 * Abs(noseOffset2(det)) < 2 * centerThreshold * eyeDistance(det)

\* verifyHeadTurn(detectionData).  Dense keypoints are objects: indexing
\* them as arrays gives NaN, and no comparison with NaN holds.
verifyHeadTurn(det) ==
    IF det.isHighRes
    THEN Verdict(headTurnStates.left /\ headTurnStates.right /\ headTurnStates.center,
                 addToLandmarkHistory(landmarkHistory, det), blinkCount,
                 headTurnStates)
    ELSE IF Len(det.landmarks) < 6
    THEN Verdict(FALSE, landmarkHistory, blinkCount, headTurnStates)
    ELSE LET h == addToLandmarkHistory(landmarkHistory, det.landmarks)
             t == IF isLeft(det)
                  THEN [headTurnStates EXCEPT !.left = TRUE]
                  ELSE IF isRight(det)
                  THEN [headTurnStates EXCEPT !.right = TRUE]
                  ELSE IF isCenter(det)
                  THEN [headTurnStates EXCEPT !.center = TRUE]
                  ELSE headTurnStates
         IN  Verdict(t.left /\ t.right /\ t.center, h, blinkCount, t)

\* the faces a frame can show
FaceCounts == 0..2

\* an attempt at the moment the timer of its first challenge is due: the
\* start button was clicked, the camera became ready, an analysis cycle has
\* written its readings and StartDelay has passed
InitGesture ==
    /\ screen = "camera"
    /\ isVerifying = TRUE
    /\ completedChallenges = 0
    /\ securityScores = [d \in Dims |-> IF d = "active" THEN 0 ELSE Reading(70)[d]]
    /\ passiveAnalysisInterval = TRUE
    /\ detectionInterval = TRUE
    /\ pendingStart = FALSE
    /\ pendingComplete = <<>>
    /\ currentChallenge = None
    /\ isActive = FALSE
    /\ challengeHistory = {}
    /\ timers = <<Timer("next", 0, None, None)>>
    /\ elapsed = 0
    /\ verified = 0
    /\ clicks = 1
    /\ now = StartDelay
    /\ returned = {}
    /\ lastFailed = None
    /\ analysisHistory = <<>>
    /\ frameCount = 0
    /\ cachedResult = NoResult
    /\ landmarkHistory = <<>>
    /\ blinkCount = 0
    /\ headTurnStates = NoTurns
    /\ submitted = <<>>
    /\ baseline = NoBaseline
    /\ frameHistory = <<>>
    /\ depthHistory = <<>>
    /\ reflectionHistory = <<>>
    /\ microHistory = <<>>
    /\ inserted = 0
    /\ depthFrameCount = 0
    /\ depthCached = NoResult
    /\ inflight = 0
    /\ latestKeypoints = None
    /\ capture = NoCapture
    /\ throttle = NoThrottle
    /\ evaluations = NoEvaluations
    /\ ModelsLoaded
    /\ event = NoEvent

\* the detections submitted while the challenge is followed
frameBudget ==
    IF currentChallenge = "smile" THEN MaxSmileFrames ELSE MaxVerifyFrames

\* the timer fires: startNextChallenge, startChallenge, for a first
\* challenge that is blink or head turn
GestureStart ==
    /\ Due(timers) # {}
    /\ ~isActive
    /\ challengeHistory = {}
    /\ completedChallenges < requiredChallenges
    /\ \E c \in getRandomChallenge \ {"smile"} :
          /\ initChallengeState(c, RemoveAt(timers, FirstDue(timers)), TRUE)
          /\ returned' = returned \cup {c}
    /\ UNCHANGED <<appVars, challengeHistory, verified, clicks, now,
                   fusionVars, analyzerVars, depthVars, cycleVars, modelVars,
                   throttleVars>>

\* processDetection(detectionData, onComplete) with the verifier v
processDetection(det, v) ==
    /\ isActive /\ currentChallenge # None
    /\ Len(submitted) < frameBudget
    /\ submitted' = Append(submitted, det)
    /\ landmarkHistory' = v.landmarkHistory
    /\ blinkCount' = v.blinkCount
    /\ headTurnStates' = v.headTurnStates
    /\ baseline' = v.baseline
    /\ IF v.ok
       THEN /\ completeChallenge(TRUE, timers)
            /\ verified' = verified + 1
       ELSE /\ event' = [type |-> "verified", id |-> currentChallenge, ok |-> FALSE]
            /\ UNCHANGED <<completedChallenges, challengerVars, verified,
                           lastFailed>>
    /\ UNCHANGED <<screen, isVerifying, securityScores,
                   passiveAnalysisInterval, detectionInterval, pendingStart,
                   pendingComplete, clicks, now, returned, fusionVars,
                   analyzerVars, depthVars, cycleVars, modelVars,
                   throttleVars>>

\* updateDetectionStatus(text) when the detection is not passed on
statusOnly(text) ==
    /\ event' = [type |-> "status", text |-> text]
    /\ UNCHANGED <<appVars, challengerVars, histVars, fusionVars, gestureVars,
                   analyzerVars, depthVars, cycleVars, modelVars,
                   throttleVars>>

\* handleDetection passing on every detection with a face
handleDetectionAnyCount(data, v) ==
    IF isActive /\ data.faceCount > 0
    THEN processDetection(data, v)
    ELSE statusOnly("noFaceDetected")

\* handleDetection(data); v is what the verifier of the current challenge
\* makes of data
handleDetection(data, v) ==
    IF isActive /\ data.faceCount > 0 /\ ~(data.faceCount > 1)
    THEN processDetection(data, v)
    ELSE statusOnly(IF data.faceCount = 0 THEN "noFaceDetected"
                    ELSE IF data.faceCount > 1 THEN "multipleFaces"
                    ELSE "faceDetected")

\* a detection tick during a blink challenge; dense keypoints are available
BlinkFrame ==
    /\ detectionInterval
    /\ currentChallenge = "blink"
    /\ \E det \in DenseDetections, n \in FaceCounts :
          LET data == [det EXCEPT !.faceCount = n]
          IN  handleDetection(data, verifyBlink(data))

\* a detection tick during a head-turn challenge, with or without dense
\* keypoints
HeadTurnFrame ==
    /\ detectionInterval
    /\ currentChallenge = "turnHead"
    /\ \E det \in CoarseDetections \cup {Dense(30, 30)}, n \in FaceCounts :
          LET data == [det EXCEPT !.faceCount = n]
          IN  handleDetection(data, verifyHeadTurn(data))

NextGesture ==
    \/ GestureStart
    \/ BlinkFrame
    \/ HeadTurnFrame

SpecGesture == InitGesture /\ [][NextGesture]_vars

(***************************************************************************)
(* SpecBlink: the blink verifier of LivenessChallenger on coarse           *)
(* detections, which differ in the distance between the two eyes.          *)
(***************************************************************************)
\* coarse landmarks with the eyes w apart, w even, around x = 20
CoarseEyes(w) ==
    [faceCount |-> 1, isHighRes |-> FALSE,
     landmarks |-> <<<<20 - w \div 2, 20>>, <<20 + w \div 2, 20>>, <<20, 30>>,
                     <<20, 40>>, <<5, 25>>, <<35, 25>>>>]

CoarseBlinkDetections == {CoarseEyes(16), CoarseEyes(20), CoarseEyes(24), CoarseEyes(30)}

InitBlink == InitGesture

\* the timer fires: startNextChallenge, startChallenge, for a first
\* challenge that is blink
BlinkStart ==
    /\ Due(timers) # {}
    /\ ~isActive
    /\ challengeHistory = {}
    /\ completedChallenges < requiredChallenges
    /\ \E c \in getRandomChallenge \cap {"blink"} :
          /\ initChallengeState(c, RemoveAt(timers, FirstDue(timers)), TRUE)
          /\ returned' = returned \cup {c}
    /\ UNCHANGED <<appVars, challengeHistory, verified, clicks, now,
                   fusionVars, analyzerVars, depthVars, cycleVars, modelVars,
                   throttleVars>>

\* a detection tick during a blink challenge while only the coarse
\* detector delivers
CoarseBlinkFrame ==
    /\ detectionInterval
    /\ currentChallenge = "blink"
    /\ \E det \in CoarseBlinkDetections, n \in FaceCounts :
          LET data == [det EXCEPT !.faceCount = n]
          IN  handleDetection(data, verifyBlink(data))

NextBlink ==
    \/ BlinkStart
    \/ CoarseBlinkFrame

SpecBlink == InitBlink /\ [][NextBlink]_vars

(***************************************************************************)
(* SpecSmile: the smile verifier of LivenessChallenger on the detections   *)
(* handleDetection submits during a smile challenge.  A dense detection is *)
(* given by the two distances verifySmile measures, a coarse one by its    *)
(* landmark array.                                                         *)
(***************************************************************************)
DenseSmile(mouthWidth) ==
    [faceCount |-> 1, isHighRes |-> TRUE, mouthWidth |-> mouthWidth,
     faceWidth |-> 100]

\* coarse landmarks with the mouth at mouthX; the eye centre is at x = 20
CoarseSmile(mouthX) ==
    [faceCount |-> 1, isHighRes |-> FALSE,
     landmarks |-> <<<<10, 20>>, <<30, 20>>, <<20, 30>>, <<mouthX, 40>>,
                     <<5, 25>>, <<35, 25>>>>]

\* a relaxed and a widened mouth, dense and coarse
SmileDetections ==
    {DenseSmile(35), DenseSmile(50), CoarseSmile(30), CoarseSmile(32)}

\* Math.abs(mouth[0] - (rightEye[0] + leftEye[0]) / 2) of coarse landmarks
\* whose eye abscissas have an even sum
mouthSpan(landmarks) ==
    Abs(landmarks[4][1] - (landmarks[1][1] + landmarks[2][1]) \div 2)

\* establishBaseline(landmarks) with history h: the baseline it leaves;
\* it returns false, and leaves the baseline alone, while h is short.
\* faceWidth is eyeDistance * 2.5 for the even eye distances of the inputs
establishBaseline(h, landmarks) ==
    IF Len(h) < 5
    THEN baseline
    ELSE LET dist == calculateDistance(landmarks[1], landmarks[2])
         IN  [set |-> TRUE, eyeDistance |-> dist,
              mouthWidth |-> mouthSpan(landmarks),
              faceWidth |-> (5 * dist) \div 2]

\* mouthWidthRatio > smileThreshold, the ratio being a / b in floating
\* point: Infinity for b = 0 < a, NaN for a = b = 0
ratioOver(a, b, hundredths) ==
    IF b = 0 THEN a > 0 ELSE 100 * a > hundredths * b

\* verifySmile(detectionData)
verifySmile(det) ==
    IF det.isHighRes
    THEN Verdict(100 * det.mouthWidth > 45 * det.faceWidth, landmarkHistory,
                 blinkCount, headTurnStates)
    ELSE IF Len(det.landmarks) < 6
    THEN Verdict(FALSE, landmarkHistory, blinkCount, headTurnStates)
    ELSE LET h == addToLandmarkHistory(landmarkHistory, det.landmarks)
             b == establishBaseline(h, det.landmarks)
         IN  IF Len(h) < 5
             THEN Verdict(FALSE, h, blinkCount, headTurnStates)
             ELSE [Verdict(ratioOver(mouthSpan(det.landmarks), b.mouthWidth,
                                     smileThreshold),
                           h, blinkCount, headTurnStates)
                     EXCEPT !.baseline = b]

InitSmile == InitGesture

\* the timer fires: startNextChallenge, startChallenge, for a first
\* challenge that is smile
SmileStart ==
    /\ Due(timers) # {}
    /\ ~isActive
    /\ challengeHistory = {}
    /\ completedChallenges < requiredChallenges
    /\ \E c \in getRandomChallenge \cap {"smile"} :
          /\ initChallengeState(c, RemoveAt(timers, FirstDue(timers)), TRUE)
          /\ returned' = returned \cup {c}
    /\ UNCHANGED <<appVars, challengeHistory, verified, clicks, now,
                   fusionVars, analyzerVars, depthVars, cycleVars, modelVars,
                   throttleVars>>

\* a detection tick during a smile challenge, with or without dense
\* keypoints
SmileFrame ==
    /\ detectionInterval
    /\ currentChallenge = "smile"
    /\ \E det \in SmileDetections, n \in FaceCounts :
          LET data == [det EXCEPT !.faceCount = n]
          IN  handleDetection(data, verifySmile(data))

NextSmile ==
    \/ SmileStart
    \/ SmileFrame

SpecSmile == InitSmile /\ [][NextSmile]_vars

(***************************************************************************)
(* SpecHistory: the six rolling histories.  One history is followed at a   *)
(* time; the items pushed are numbered 1, 2, ... in the order of pushing.  *)
(***************************************************************************)
maxFrames == 15

depthMaxHistory == 10

reflectionMaxHistory == 8

microMaxHistory == 20

\* the items pushed to the history that is followed
MaxInserted == 35

\* PassiveLiveness.addFrameToHistory
addFrameToHistory(h, simplified) ==
    LET pushed == Append(h, simplified)
    IN  IF Len(pushed) > maxFrames THEN Tail(pushed) ELSE pushed

\* DepthEstimator.addToHistory
addToDepthHistory(h, features) ==
    LET pushed == Append(h, features)
    IN  IF Len(pushed) > depthMaxHistory THEN Tail(pushed) ELSE pushed

\* EyeReflection.addToHistory
addToReflectionHistory(h, result) ==
    LET pushed == Append(h, result)
    IN  IF Len(pushed) > reflectionMaxHistory THEN Tail(pushed) ELSE pushed

\* MicroExpression.addToHistory
addToMicroHistory(h, keypoints) ==
    LET pushed == Append(h, keypoints)
    IN  IF Len(pushed) > microMaxHistory THEN Tail(pushed) ELSE pushed

\* the six histories, by owner
histories ==
    [challenger |-> landmarkHistory, passive |-> frameHistory,
     depth |-> depthHistory, antiSpoof |-> analysisHistory,
     eyeReflection |-> reflectionHistory, microExpression |-> microHistory]

\* their capacities
capacity ==
    [challenger |-> maxHistoryLength, passive |-> maxFrames,
     depth |-> depthMaxHistory, antiSpoof |-> maxHistory,
     eyeReflection |-> reflectionMaxHistory, microExpression |-> microMaxHistory]

\* the history of owner o is the only one in use
Followed(o) ==
    /\ inserted < MaxInserted
    /\ \A other \in DOMAIN histories \ {o} : histories[other] = <<>>
    /\ inserted' = inserted + 1
    /\ event' = NoEvent

InitHistory == Init

PushLandmarks ==
    /\ Followed("challenger")
    /\ landmarkHistory' = addToLandmarkHistory(landmarkHistory, inserted + 1)
    /\ UNCHANGED <<appVars, challengerVars, histVars, fusionVars, blinkCount,
                   headTurnStates, submitted, baseline, frameHistory, depthHistory,
                   reflectionHistory, microHistory, depthVars, cycleVars,
                   modelVars,
                   throttleVars>>

PushFrame ==
    /\ Followed("passive")
    /\ frameHistory' = addFrameToHistory(frameHistory, inserted + 1)
    /\ UNCHANGED <<appVars, challengerVars, histVars, fusionVars, gestureVars,
                   depthHistory, reflectionHistory, microHistory, depthVars,
                   cycleVars, modelVars,
                   throttleVars>>

PushDepth ==
    /\ Followed("depth")
    /\ depthHistory' = addToDepthHistory(depthHistory, inserted + 1)
    /\ UNCHANGED <<appVars, challengerVars, histVars, fusionVars, gestureVars,
                   frameHistory, reflectionHistory, microHistory, depthVars,
                   cycleVars, modelVars,
                   throttleVars>>

PushAnalysis ==
    /\ Followed("antiSpoof")
    /\ analysisHistory' = addToHistory(analysisHistory, inserted + 1)
    /\ UNCHANGED <<appVars, challengerVars, histVars, frameCount,
                   cachedResult, gestureVars, frameHistory, depthHistory,
                   reflectionHistory, microHistory, depthVars, cycleVars,
                   modelVars,
                   throttleVars>>

PushReflection ==
    /\ Followed("eyeReflection")
    /\ reflectionHistory' = addToReflectionHistory(reflectionHistory, inserted + 1)
    /\ UNCHANGED <<appVars, challengerVars, histVars, fusionVars, gestureVars,
                   frameHistory, depthHistory, microHistory, depthVars,
                   cycleVars, modelVars,
                   throttleVars>>

PushMicro ==
    /\ Followed("microExpression")
    /\ microHistory' = addToMicroHistory(microHistory, inserted + 1)
    /\ UNCHANGED <<appVars, challengerVars, histVars, fusionVars, gestureVars,
                   frameHistory, depthHistory, reflectionHistory, depthVars,
                   cycleVars, modelVars,
                   throttleVars>>

NextHistory ==
    \/ PushLandmarks
    \/ PushFrame
    \/ PushDepth
    \/ PushAnalysis
    \/ PushReflection
    \/ PushMicro

SpecHistory == InitHistory /\ [][NextHistory]_vars

(***************************************************************************)
(* SpecDenseTurn: the head-turn verifier when handleDetection submits the  *)
(* dense keypoints (objects with x, y, z) in place of the coarse landmark  *)
(* arrays.  A dense detection is given by the head position it shows.      *)
(***************************************************************************)
\* dense keypoints of a face turned to pose
DenseTurn(pose) == [faceCount |-> 1, isHighRes |-> TRUE, pose |-> pose]

DenseTurnDetections ==
    {DenseTurn("left"), DenseTurn("center"), DenseTurn("right")}

InitDenseTurn == InitGesture

\* the timer fires: startNextChallenge, startChallenge, for a first
\* challenge that is head turn
TurnStart ==
    /\ Due(timers) # {}
    /\ ~isActive
    /\ challengeHistory = {}
    /\ completedChallenges < requiredChallenges
    /\ \E c \in getRandomChallenge \cap {"turnHead"} :
          /\ initChallengeState(c, RemoveAt(timers, FirstDue(timers)), TRUE)
          /\ returned' = returned \cup {c}
    /\ UNCHANGED <<appVars, challengeHistory, verified, clicks, now,
                   fusionVars, analyzerVars, depthVars, cycleVars, modelVars,
                   throttleVars>>

\* a detection tick during a head-turn challenge; latestKeypoints is set
\* or not
DenseTurnFrame ==
    /\ detectionInterval
    /\ currentChallenge = "turnHead"
    /\ \E det \in DenseTurnDetections \cup {Coarse(12), Coarse(20), Coarse(28)} :
          handleDetection(det, verifyHeadTurn(det))

NextDenseTurn ==
    \/ TurnStart
    \/ DenseTurnFrame

SpecDenseTurn == InitDenseTurn /\ [][NextDenseTurn]_vars

(***************************************************************************)
(* SpecRetry: challenges with their verifiers, their timeouts and their    *)
(* retries: the detections of SpecGesture, SpecSmile and SpecBlink, the    *)
(* timers of Spec.  The attempt is left to run; nobody cancels it.         *)
(***************************************************************************)
\* the detections a tick can submit during challenge c
RetryDetections(c) ==
    IF c = "blink" THEN {Dense(10, 10), Dense(30, 30)}
    ELSE IF c = "turnHead" THEN {Coarse(12), Coarse(20), Coarse(28), Dense(30, 30)}
    ELSE {CoarseSmile(30), DenseSmile(50)}

\* currentChallenge.verify(detectionData) of processDetection
verify(det) ==
    IF currentChallenge = "blink" THEN verifyBlink(det)
    ELSE IF currentChallenge = "turnHead" THEN verifyHeadTurn(det)
    ELSE verifySmile(det)

InitRetry == InitGesture

\* a detection tick while a challenge is active
RetryFrame ==
    /\ detectionInterval
    /\ currentChallenge # None
    /\ \E det \in RetryDetections(currentChallenge) :
          handleDetection(det, verify(det))

NextRetry ==
    \/ TimerFire
    \/ TickLive
    \/ RetryFrame

SpecRetry == InitRetry /\ [][NextRetry]_vars

(***************************************************************************)
(* SpecTemporal: PassiveLiveness.scoreTemporalFast on the frame history    *)
(* that the analyzed frames build up.  A simplified frame is uniform: all  *)
(* of its 400 cells hold the same brightness, so the mean absolute         *)
(* difference of two frames is the difference of their brightnesses.       *)
(* avgDiff is kept in twelfths and scores in twelfths of a thousandth, so  *)
(* that the division by 2, 3 or 4 earlier frames is exact.                 *)
(***************************************************************************)
\* the frames analyzed after a reset
MaxTemporalFrames == 4

Brightness == {0, 1, 16, 40, 100}

\* avgDiff of scoreTemporalFast on history h of three or more frames
avgDiff12(h) ==
    LET recent == SubSeq(h, Max(1, Len(h) - 4), Len(h))
        current == recent[Len(recent)]
        totalDiff == SumSeq([i \in 1..(Len(recent) - 1) |-> Abs(current - recent[i])])
    IN  (12 * totalDiff) \div (Len(recent) - 1)

\* the three branches of scoreTemporalFast on avgDiff a
temporalBand(a) ==
    IF a >= 24 /\ a <= 180 THEN 8400 + 20 * a
    ELSE IF a < 24 THEN 2400 + 200 * a
    ELSE Max(3600, 12000 - 25 * (a - 180))

\* scoreTemporalFast()
scoreTemporalFast(h) == IF Len(h) < 3 THEN 8400 ELSE temporalBand(avgDiff12(h))

InitTemporal == Init

\* PassiveLiveness.analyze on a frame that is not skipped: the temporal
\* score of analyzeAllOptimized, then addFrameToHistory
TemporalFrame ==
    /\ Len(frameHistory) < MaxTemporalFrames
    /\ \E v \in Brightness :
          /\ frameHistory' = addFrameToHistory(frameHistory, v)
          /\ event' = [type |-> "temporal", frames |-> Len(frameHistory),
                       avgDiff |-> IF Len(frameHistory) < 3 THEN 0
                                   ELSE avgDiff12(frameHistory),
                       score |-> scoreTemporalFast(frameHistory)]
    /\ UNCHANGED <<appVars, challengerVars, histVars, fusionVars, gestureVars,
                   depthHistory, reflectionHistory, microHistory, inserted,
                   depthVars, cycleVars, modelVars,
                   throttleVars>>

\* PassiveLiveness.reset
TemporalReset ==
    /\ frameHistory # <<>>
    /\ frameHistory' = <<>>
    /\ event' = NoEvent
    /\ UNCHANGED <<appVars, challengerVars, histVars, fusionVars, gestureVars,
                   depthHistory, reflectionHistory, microHistory, inserted,
                   depthVars, cycleVars, modelVars,
                   throttleVars>>

NextTemporal ==
    \/ TemporalFrame
    \/ TemporalReset

SpecTemporal == InitTemporal /\ [][NextTemporal]_vars

(***************************************************************************)
(* SpecSubScore: the banded sub-scores of the passive analyzers.  A score  *)
(* is the fraction num / den of thousandths.  The inputs lie on grids on   *)
(* which the comparisons with the band limits are exact: the eye region's  *)
(* brightRatio is brightPixels / totalPixels, avgEdge is given in tenths   *)
(* and the average movement in hundredths.                                 *)
(***************************************************************************)
\* the pixels of the 15 x 15 eye region that lie inside the image: all of
\* them, or 12 of its rows for an eye near the upper or lower border
RegionPixels == {15 * 15, 15 * 12}

\* EyeReflection.analyzeEyeRegionFast from the pixel counts of its loop
analyzeEyeRegionFast(brightPixels, totalPixels) ==
    IF totalPixels = 0
    THEN [num |-> 500, den |-> 1]
    ELSE IF 100 * brightPixels > totalPixels /\ 100 * brightPixels < 15 * totalPixels
    THEN [num |-> 600 * totalPixels + 2000 * brightPixels, den |-> totalPixels]
    ELSE IF 100 * brightPixels > 15 * totalPixels
    THEN [num |-> 400, den |-> 1]
    ELSE [num |-> 300 * totalPixels + 10000 * brightPixels, den |-> totalPixels]

\* PassiveLiveness.scoreEdge(avgEdge), avgEdge in tenths
scoreEdge(avgEdge) ==
    IF avgEdge >= 80 /\ avgEdge <= 450
    THEN [num |-> 861000 + 1000 * (avgEdge - 80), den |-> 1230]
    ELSE [num |-> Max(300, 700 - 2 * Abs(avgEdge - 250)), den |-> 1]

\* MicroExpression.evaluateNaturalnessFast(movements), movements.total in
\* hundredths
evaluateNaturalnessFast(avg) ==
    IF avg > 5 /\ avg < 300 THEN [num |-> 600 + avg, den |-> 1]
    ELSE IF avg < 5 THEN [num |-> 300 + 60 * avg, den |-> 1]
    ELSE [num |-> Max(300, 1000 - (avg - 300)), den |-> 1]

InitSubScore == Init

\* the eye reflection analyzer scores one eye region
EyeRegionScore ==
    /\ \E totalPixels \in RegionPixels, brightPixels \in 0..(15 * 15) :
          /\ brightPixels <= totalPixels
          /\ event' = [type |-> "subScore", of |-> "eyeRegion",
                       input |-> <<brightPixels, totalPixels>>,
                       score |-> analyzeEyeRegionFast(brightPixels, totalPixels)]
    /\ UNCHANGED <<appVars, challengerVars, histVars, fusionVars, gestureVars,
                   analyzerVars, depthVars, cycleVars, modelVars,
                   throttleVars>>

\* the passive analyzer scores the mean edge strength of a frame
EdgeScore ==
    /\ \E avgEdge \in 0..600 :
          event' = [type |-> "subScore", of |-> "edge", input |-> <<avgEdge>>,
                    score |-> scoreEdge(avgEdge)]
    /\ UNCHANGED <<appVars, challengerVars, histVars, fusionVars, gestureVars,
                   analyzerVars, depthVars, cycleVars, modelVars,
                   throttleVars>>

\* the micro-expression analyzer scores the mean movement of a frame
NaturalnessScore ==
    /\ \E avg \in 0..400 :
          event' = [type |-> "subScore", of |-> "naturalness", input |-> <<avg>>,
                    score |-> evaluateNaturalnessFast(avg)]
    /\ UNCHANGED <<appVars, challengerVars, histVars, fusionVars, gestureVars,
                   analyzerVars, depthVars, cycleVars, modelVars,
                   throttleVars>>

NextSubScore ==
    \/ EyeRegionScore
    \/ EdgeScore
    \/ NaturalnessScore

SpecSubScore == InitSubScore /\ [][NextSubScore]_vars

(***************************************************************************)
(* SpecCycle: the analysis cycles of startPassiveAnalysis.  The interval   *)
(* callback is async: it runs up to the estimateFaces call inside          *)
(* DepthEstimator.estimateDepth, where it is suspended until the inference *)
(* resolves; PassiveLiveness.analyze and AntiSpoofing.analyze contain no   *)
(* await of their own, so the awaits on them only yield to continuations   *)
(* that are already runnable.  Continuations run in the order they were    *)
(* queued.  The analyzers' scores are inputs; their histories are followed *)
(* in SpecFusion and SpecHistory.                                          *)
(***************************************************************************)
\* the cycles that may be suspended at once
MaxInFlight == 2

\* a score assignment made by cycle c
Write(c, dim, v) == [cycle |-> c, dim |-> dim, value |-> v]

\* what estimateFaces makes estimateDepth return: the no-face result, or a
\* result with keypoints (which is cached)
depthOutcome(face, r) ==
    IF face THEN [set |-> TRUE, score |-> r.depth, keypoints |-> TRUE]
            ELSE [set |-> TRUE, score |-> 0, keypoints |-> FALSE]

\* the callback from the return of estimateDepth to the await on
\* passiveLiveness.analyze
afterDepth(c, d) == <<Write(c, "depth", d.score)>>

\* from there to the await on antiSpoofing.analyze
afterPassive(c, r) == <<Write(c, "passive", r.passive)>>

\* from there to the end of the callback
afterAntiSpoof(c, d, r) ==
    <<Write(c, "antiSpoof", r.antiSpoof)>> \o
        (IF d.keypoints
         THEN <<Write(c, "eyeReflection", r.eyeReflection),
                Write(c, "microExpression", r.microExpression)>>
         ELSE <<>>)

\* a callback that runs with no other continuation runnable
cycleWrites(c, d, r) == afterDepth(c, d) \o afterPassive(c, r) \o afterAntiSpoof(c, d, r)

\* two callbacks whose inferences resolved together: each await hands over
\* to the other
pairWrites(d1, r1, d2, r2) ==
    afterDepth(1, d1) \o afterDepth(2, d2) \o afterPassive(1, r1) \o
    afterPassive(2, r2) \o afterAntiSpoof(1, d1, r1) \o afterAntiSpoof(2, d2, r2)

RECURSIVE applyWrites(_, _)
\* the Security Score Set after the assignments ws
applyWrites(sc, ws) ==
    IF ws = <<>> THEN sc
    ELSE applyWrites([sc EXCEPT ![Head(ws).dim] = Head(ws).value], Tail(ws))

\* this.latestKeypoints = depthResult.keypoints
keypointsOf(d) == IF d.keypoints THEN "keypoints" ELSE None

InitCycle == Init

\* the interval callback up to its first suspension
AnalysisTick ==
    /\ passiveAnalysisInterval
    /\ isVerifying
    /\ meshLoaded
    /\ depthFrameCount' = (depthFrameCount + 1) % 2
    /\ IF depthFrameCount' # 0 /\ depthCached.set
       THEN \* estimateDepth returns the cached result at once
            \E r \in AnalyzerReadings :
               LET ws == cycleWrites(1, depthCached, r)
               IN  /\ securityScores' = applyWrites(securityScores, ws)
                   /\ latestKeypoints' = keypointsOf(depthCached)
                   /\ event' = [type |-> "cycle", writes |-> ws,
                                verifying |-> isVerifying,
                                before |-> securityScores]
                   /\ UNCHANGED inflight
       ELSE /\ inflight < MaxInFlight
            /\ inflight' = inflight + 1
            /\ event' = NoEvent
            /\ UNCHANGED <<securityScores, latestKeypoints>>
    /\ UNCHANGED capture
    /\ UNCHANGED <<screen, isVerifying, completedChallenges,
                   passiveAnalysisInterval, detectionInterval, pendingStart,
                   pendingComplete, challengerVars, histVars, fusionVars,
                   gestureVars, analyzerVars, depthCached, modelVars,
                   throttleVars>>

\* estimateFaces resolves for the oldest suspended callback, or for the two
\* oldest together
InferenceResolve ==
    /\ inflight > 0
    /\ \E k \in 1..Min(inflight, 2), f1 \in BOOLEAN, f2 \in BOOLEAN :
       \E r1 \in AnalyzerReadings, r2 \in AnalyzerReadings :
          LET d1 == depthOutcome(f1, r1)
              d2 == depthOutcome(f2, r2)
              ws == IF k = 1 THEN cycleWrites(1, d1, r1)
                             ELSE pairWrites(d1, r1, d2, r2)
              last == IF k = 1 THEN d1 ELSE d2
          IN  /\ k = 1 => (f2 = f1 /\ r2 = r1)
              /\ inflight' = inflight - k
              /\ securityScores' = applyWrites(securityScores, ws)
              /\ latestKeypoints' = keypointsOf(last)
              /\ UNCHANGED capture
              /\ depthCached' = IF last.keypoints THEN last
                                ELSE IF k = 2 /\ d1.keypoints THEN d1
                                ELSE depthCached
              /\ event' = [type |-> "cycle", writes |-> ws,
                           verifying |-> isVerifying,
                           before |-> securityScores]
    /\ UNCHANGED <<screen, isVerifying, completedChallenges,
                   passiveAnalysisInterval, detectionInterval, pendingStart,
                   pendingComplete, challengerVars, histVars, fusionVars,
                   gestureVars, analyzerVars, depthFrameCount, modelVars,
                   throttleVars>>

NextCycle ==
    \/ ClickStart
    \/ ClickRetry
    \/ StartVerificationResume
    \/ ClickCancel
    \/ ClickNewVerification
    \/ CompleteVerificationFinish
    \/ AnalysisTick
    \/ InferenceResolve

SpecCycle == InitCycle /\ [][NextCycle]_vars

(***************************************************************************)
(* SpecCapture: a blink challenge during which the analysis interval       *)
(* captures dense keypoints and the detection interval submits             *)
(* latestKeypoints to the verifier.  A capture is numbered and shows the   *)
(* eyes open or closed.  An analysis cycle runs here with no other cycle   *)
(* suspended.                                                              *)
(***************************************************************************)
\* the inferences made during the challenge
MaxCaptures == 2

InitCapture == InitGesture

\* one cycle of the analysis interval: estimateDepth returns its cached
\* result, keypoints included, on a throttled call, and the result of a new
\* inference otherwise
CaptureTick ==
    /\ passiveAnalysisInterval
    /\ isVerifying
    /\ meshLoaded
    /\ depthFrameCount' = (depthFrameCount + 1) % 2
    /\ \E r \in AnalyzerReadings :
          IF depthFrameCount' # 0 /\ depthCached.set
          THEN LET ws == cycleWrites(1, depthCached, r)
               IN  /\ securityScores' = applyWrites(securityScores, ws)
                   /\ latestKeypoints' = keypointsOf(depthCached)
                   /\ event' = [type |-> "cycle", writes |-> ws,
                                verifying |-> isVerifying,
                                before |-> securityScores]
                   /\ UNCHANGED <<capture, depthCached>>
          ELSE /\ capture.id < MaxCaptures
               /\ \E closed \in BOOLEAN :
                     LET d == depthOutcome(TRUE, r)
                         ws == cycleWrites(1, d, r)
                     IN  /\ securityScores' = applyWrites(securityScores, ws)
                         /\ latestKeypoints' = keypointsOf(d)
                         /\ capture' = [id |-> capture.id + 1, closed |-> closed]
                         /\ depthCached' = d
                         /\ event' = [type |-> "cycle", writes |-> ws,
                                      verifying |-> isVerifying,
                                      before |-> securityScores]
    /\ UNCHANGED <<screen, isVerifying, completedChallenges,
                   passiveAnalysisInterval, detectionInterval, pendingStart,
                   pendingComplete, challengerVars, histVars, fusionVars,
                   gestureVars, analyzerVars, inflight, modelVars,
                   throttleVars>>

\* challengeData of handleDetection: landmarks: highResKeypoints ||
\* data.landmarks, isHighRes: !!highResKeypoints
challengeData(data) ==
    IF latestKeypoints # None
    THEN [faceCount |-> data.faceCount, isHighRes |-> TRUE,
          leftOpen |-> IF capture.closed THEN 10 ELSE 30,
          rightOpen |-> IF capture.closed THEN 10 ELSE 30,
          eyeWidth |-> 100, capture |-> capture.id]
    ELSE data

\* a tick of the detection interval during a blink challenge
CaptureFrame ==
    /\ detectionInterval
    /\ currentChallenge = "blink"
    /\ \E n \in FaceCounts :
          LET data == challengeData([CoarseEyes(20) EXCEPT !.faceCount = n])
          IN  handleDetection(data, verifyBlink(data))

NextCapture ==
    \/ BlinkStart
    \/ CaptureTick
    \/ CaptureFrame

SpecCapture == InitCapture /\ [][NextCapture]_vars

(***************************************************************************)
(* SpecThrottle: the frame skipping of the five analyzers over the analysis *)
(* cycles of startPassiveAnalysis.  A cycle is taken as one step (cycles    *)
(* that do not overlap); a result is known by the cycle that computed it.   *)
(***************************************************************************)
MaxCycles == 8

\* MicroExpression.analyze: history entries needed before a score is computed
microMinHistory == 5

\* the result an evaluation of cycle n produces
Result(n, score, keypoints) ==
    [set |-> TRUE, cycle |-> n, score |-> score, keypoints |-> keypoints]

\* `frameCount % period !== 0 && cachedResult', frameCount already incremented
skipsFrame(count, period, cached) == count % period # 0 /\ cached.set

\* what a call leaves behind: whether it evaluated, what it returned, and the
\* analyzer's counter, cache and history after it
Call(fresh, result, count, cached, history) ==
    [called |-> TRUE, fresh |-> fresh, returned |-> result,
     frameCount |-> count, cachedResult |-> cached, history |-> history]

NotCalled(count, cached, history) ==
    [called |-> FALSE, fresh |-> FALSE, returned |-> NoResult,
     frameCount |-> count, cachedResult |-> cached, history |-> history]

\* DepthEstimator.estimateDepth, the model loaded
estimateDepth(n, face, r) ==
    LET count == (depthFrameCount + 1) % 2
    IN  IF skipsFrame(count, 2, depthCached)
        THEN Call(FALSE, depthCached, count, depthCached, depthHistory)
        ELSE IF ~face
        THEN Call(TRUE, Result(n, 0, FALSE), count, depthCached, depthHistory)
        ELSE Call(TRUE, Result(n, r.depth, TRUE), count,
                  Result(n, r.depth, TRUE), addToDepthHistory(depthHistory, n))

\* PassiveLiveness.analyze
passiveAnalyze(n, r) ==
    LET count == throttle.passive.frameCount + 1
        cached == throttle.passive.cachedResult
    IN  IF skipsFrame(count, 2, cached)
        THEN Call(FALSE, cached, count, cached, frameHistory)
        ELSE Call(TRUE, Result(n, r.passive, FALSE), count,
                  Result(n, r.passive, FALSE), addFrameToHistory(frameHistory, n))

\* AntiSpoofing.analyze
antiSpoofAnalyze(n, r) ==
    LET count == frameCount + 1
    IN  IF skipsFrame(count, 3, cachedResult)
        THEN Call(FALSE, cachedResult, count, cachedResult, analysisHistory)
        ELSE Call(TRUE, Result(n, r.antiSpoof, FALSE), count,
                  Result(n, r.antiSpoof, FALSE), addToHistory(analysisHistory, n))

\* EyeReflection.analyze on the keypoints of a face
eyeReflectionAnalyze(n, r) ==
    LET count == throttle.eyeReflection.frameCount + 1
        cached == throttle.eyeReflection.cachedResult
    IN  IF skipsFrame(count, 3, cached)
        THEN Call(FALSE, cached, count, cached, reflectionHistory)
        ELSE Call(TRUE, Result(n, r.eyeReflection, FALSE), count,
                  Result(n, r.eyeReflection, FALSE),
                  addToReflectionHistory(reflectionHistory, n))

\* MicroExpression.analyze on the keypoints of a face
microExpressionAnalyze(n, r) ==
    LET count == throttle.microExpression.frameCount + 1
        cached == throttle.microExpression.cachedResult
        pushed == addToMicroHistory(microHistory, n)
    IN  IF skipsFrame(count, 2, cached)
        THEN Call(FALSE, cached, count, cached, microHistory)
        ELSE IF Len(pushed) < microMinHistory
        THEN Call(TRUE, Result(n, 50, FALSE), count, cached, pushed)
        ELSE Call(TRUE, Result(n, r.microExpression, FALSE), count,
                  Result(n, r.microExpression, FALSE), pushed)

\* the score a result writes into the Security Score Set, if there is one
writeScore(sc, dim, call) ==
    IF call.called /\ call.returned.set
    THEN [sc EXCEPT ![dim] = call.returned.score] ELSE sc

\* what the cycle reports of one call: the evaluation that was the last one
\* before the call, and whether the call changed the cache or the history
Report(a, call, cachedBefore, historyBefore) ==
    [called |-> call.called, fresh |-> call.fresh, returned |-> call.returned,
     last |-> evaluations.last[a],
     changed |-> (call.cachedResult # cachedBefore \/ call.history # historyBefore),
     run |-> IF call.called /\ ~call.fresh THEN evaluations.run[a] + 1 ELSE 0]

InitThrottle == InitGesture

\* one tick of the interval of startPassiveAnalysis
ThrottleCycle ==
    /\ passiveAnalysisInterval
    /\ isVerifying
    /\ meshLoaded
    /\ evaluations.cycles < MaxCycles
    /\ \E face \in BOOLEAN, r \in AnalyzerReadings :
          LET n == evaluations.cycles + 1
              depth == estimateDepth(n, face, r)
              passive == passiveAnalyze(n, r)
              antiSpoof == antiSpoofAnalyze(n, r)
              hasKeypoints == depth.returned.keypoints
              eye == IF hasKeypoints THEN eyeReflectionAnalyze(n, r)
                     ELSE NotCalled(throttle.eyeReflection.frameCount,
                                    throttle.eyeReflection.cachedResult,
                                    reflectionHistory)
              micro == IF hasKeypoints THEN microExpressionAnalyze(n, r)
                       ELSE NotCalled(throttle.microExpression.frameCount,
                                      throttle.microExpression.cachedResult,
                                      microHistory)
              calls == [depth |-> depth, passive |-> passive,
                        antiSpoof |-> antiSpoof, eyeReflection |-> eye,
                        microExpression |-> micro]
          IN  /\ depthFrameCount' = depth.frameCount
              /\ depthCached' = depth.cachedResult
              /\ depthHistory' = depth.history
              /\ frameHistory' = passive.history
              /\ frameCount' = antiSpoof.frameCount
              /\ cachedResult' = antiSpoof.cachedResult
              /\ analysisHistory' = antiSpoof.history
              /\ reflectionHistory' = eye.history
              /\ microHistory' = micro.history
              /\ throttle' =
                    [a \in DOMAIN throttle |->
                        [frameCount |-> calls[a].frameCount,
                         cachedResult |-> calls[a].cachedResult]]
              /\ securityScores' =
                    writeScore(writeScore(writeScore(writeScore(writeScore(
                        securityScores, "depth", depth), "passive", passive),
                        "antiSpoof", antiSpoof), "eyeReflection", eye),
                        "microExpression", micro)
              /\ latestKeypoints' = keypointsOf(depth.returned)
              /\ evaluations' =
                    [cycles |-> n,
                     last |-> [a \in Analyzers |->
                                 IF calls[a].fresh THEN calls[a].returned
                                 ELSE evaluations.last[a]],
                     run |-> [a \in Analyzers |->
                                 IF calls[a].fresh THEN 0
                                 ELSE IF calls[a].called
                                 THEN evaluations.run[a] + 1
                                 ELSE evaluations.run[a]]]
              /\ event' =
                    [type |-> "throttle", cycle |-> n,
                     given |-> [depth |-> depth.returned.cycle,
                                passive |-> passive.returned.cycle],
                     calls |->
                        [depth |-> Report("depth", depth, depthCached, depthHistory),
                         passive |-> Report("passive", passive,
                                            throttle.passive.cachedResult,
                                            frameHistory),
                         antiSpoof |-> Report("antiSpoof", antiSpoof,
                                              cachedResult, analysisHistory),
                         eyeReflection |->
                            Report("eyeReflection", eye,
                                   throttle.eyeReflection.cachedResult,
                                   reflectionHistory),
                         microExpression |->
                            Report("microExpression", micro,
                                   throttle.microExpression.cachedResult,
                                   microHistory)]]
    /\ UNCHANGED <<screen, isVerifying, completedChallenges,
                   passiveAnalysisInterval, detectionInterval, pendingStart,
                   pendingComplete, challengerVars, histVars, gestureVars,
                   inserted, inflight, capture, modelVars>>

NextThrottle == ThrottleCycle

SpecThrottle == InitThrottle /\ [][NextThrottle]_vars

(***************************************************************************)
(* Properties                                                              *)
(***************************************************************************)
\* C1: completeVerification is called with success = true only when
\* completedChallenges >= requiredChallenges, and the result it shows accepts
\* if and only if success is true and the combined score is at least 80; a
\* result produced by cancelVerification rejects whatever the score.
C1_AcceptIffSuccessAndThreshold ==
    /\ (event.type = "finalize" /\ event.success) =>
          event.completed >= requiredChallenges
    /\ event.type = "shown" =>
          /\ event.accept <=> (event.success /\ event.combined >= 80)
          /\ event.by = "cancelVerification" => ~event.accept

\* C1 witness: a result shown after all required challenges with a combined
\* score of exactly 80, accepted
C1_Witness ==
    /\ event.type = "shown"
    /\ event.by = "startNextChallenge"
    /\ event.combined = 80
    /\ event.accept

\* C2: completedChallenges never exceeds the number of verifier successes of
\* the attempt, and completeVerification(true) is called only after
\* requiredChallenges verifier successes in the attempt.
C2_CreditOnlyVerified ==
    /\ completedChallenges <= verified
    /\ (event.type = "finalize" /\ event.success) =>
          event.verified >= requiredChallenges

\* C3: calculateCombinedScore returns the weighted sum
\* 0.30 active + 0.25 passive + 0.25 antiSpoof + 0.10 depth
\* + 0.05 eyeReflection + 0.05 microExpression rounded to the nearest integer
\* (halves up).
C3_RoundedWeightedSum ==
    event.type = "combined" =>
        event.value =
            (30 * securityScores.active + 25 * securityScores.passive
             + 25 * securityScores.antiSpoof + 10 * securityScores.depth
             + 5 * securityScores.eyeReflection
             + 5 * securityScores.microExpression + 50) \div 100

\* C4: the anti-spoof score written into the Security Score Set is an
\* integer in 0..100.
C4_AntiSpoofInRange == securityScores.antiSpoof \in 0..100

\* C5: getRandomChallenge never returns a descriptor it has returned before
\* while some descriptor of the pool has not been returned yet.
C5_NoRepeatBeforeExhaustion == event.type = "started" => ~event.repeated

\* C6: with a non-empty pool getRandomChallenge always returns a descriptor,
\* so startChallenge never reports completion without a challenge.
C6_SelectsAfterExhaustion == ~(event.type = "result" /\ event.id = None)

\* C7: a challenge completes with failure only after its own duration has
\* elapsed since its own start.
C7_FailureOnlyAfterOwnDuration ==
    (event.type = "result" /\ ~event.success) =>
        event.elapsed >= duration[event.id]

\* C8: the timeout of a started challenge never comes due with the challenge
\* overwritten and its completion callback never invoked.
C8_CallbackForEveryStart ==
    \A i \in DOMAIN timers :
        (timers[i].kind = "timeout" /\ timers[i].rem = 0) =>
            timers[i].owner # "lost"

\* C9: a challenge is started only while the challenger is idle (isActive
\* false and no current descriptor).
C9_StartOnlyWhenIdle == event.type = "started" => event.wasIdle

\* C10: the challenge started next after a failure is the descriptor that
\* failed.
C10_RetrySameDescriptor ==
    (event.type = "started" /\ event.afterFailureOf # None) =>
        event.id = event.afterFailureOf

\* the closures of a sequence of detections: the maximal runs of consecutive
\* dense detections with the eyes closed
closures(q) ==
    Cardinality({i \in DOMAIN q :
        /\ q[i].isHighRes /\ eyesClosed(q[i])
        /\ (i = 1 \/ ~(q[i - 1].isHighRes /\ eyesClosed(q[i - 1])))})

\* C11: with dense landmarks the closure count of the blink verifier is the
\* number of distinct closures (excursions of the eye aspect ratio below
\* 0.15) submitted since the challenge started, so that a single closure,
\* however many detections it lasts, is not a success.
C11_ClosuresCounted == blinkCount = closures(submitted)

\* the normalized nose offsets, in hundredths, of the coarse detections with
\* landmarks submitted since the challenge started
offsets ==
    {(100 * noseOffset2(submitted[i])) \div (2 * eyeDistance(submitted[i])) :
        i \in {j \in DOMAIN submitted :
                  ~submitted[j].isHighRes /\ Len(submitted[j].landmarks) >= 6}}

lastItems(k, n) == [i \in 1..Min(k, n) |-> k - Min(k, n) + i]

\* C13: each rolling history never holds more entries than its capacity
\* (challenger 30, passive 15, depth 10, anti-spoofing 10, eye reflection 8,
\* micro-expression 20) and evicts oldest first: after k pushes it holds the
\* last min(k, capacity) items in their order of pushing.
C13_HistoriesBoundedFifo ==
    \A o \in DOMAIN histories :
        /\ Len(histories[o]) <= capacity[o]
        /\ histories[o] # <<>> => histories[o] = lastItems(inserted, capacity[o])

\* capacity + 5 items were pushed to the challenger's history
C13_Witness ==
    /\ inserted = maxHistoryLength + 5
    /\ Len(landmarkHistory) = maxHistoryLength
    /\ landmarkHistory[1] = 6 /\ landmarkHistory[maxHistoryLength] = 35

\* C14: once an attempt is stopped (cancelVerification or
\* completeVerification, which clear isVerifying), none of its pending
\* timers takes effect: no timer starts a challenge or completes one by
\* timeout.
C14_NoTimerEffectAfterStop ==
    (\/ event.type = "started"
     \/ event.type = "result" /\ ~event.success) => isVerifying

\* C15: a cycle that resumes after the attempt was stopped writes nothing:
\* every cycle that assigns scores does so while isVerifying holds.
C15_NoWriteAfterStop == event.type = "cycle" => event.verifying

\* the place of a dimension in the update order of a cycle
updateRank ==
    [depth |-> 1, passive |-> 2, antiSpoof |-> 3, eyeReflection |-> 4,
     microExpression |-> 5]

\* C18: the score assignments of one cycle are made in the order depth,
\* passive, anti-spoof, eye reflection, micro-expression, and no assignment
\* of another cycle falls between two assignments of the same cycle.
C18_CycleUpdatesNotInterleaved ==
    event.type = "cycle" =>
        \A i, j \in DOMAIN event.writes :
            (i < j /\ event.writes[i].cycle = event.writes[j].cycle) =>
                /\ updateRank[event.writes[i].dim] < updateRank[event.writes[j].dim]
                /\ \A m \in i..j : event.writes[m].cycle = event.writes[i].cycle

\* C16: when startVerification begins a new attempt nothing of the previous
\* one is left: the Security Score Set is all zeros, the challenger is idle
\* with an empty used-set, the analyzers' histories, caches and frame
\* counters are empty and no landmark set is retained.
C16_FreshStateAtAttemptStart ==
    pendingStart =>
        /\ securityScores = ZeroScores
        /\ ~isActive /\ currentChallenge = None /\ challengeHistory = {}
        /\ analysisHistory = <<>> /\ frameCount = 0 /\ ~cachedResult.set
        /\ depthHistory = <<>> /\ depthFrameCount = 0 /\ ~depthCached.set
        /\ frameHistory = <<>> /\ reflectionHistory = <<>> /\ microHistory = <<>>
        /\ landmarkHistory = <<>> /\ latestKeypoints = None

\* C17: an attempt is finalized at most once: when completeVerification is
\* entered no other call of it is suspended and no result of the attempt has
\* been shown yet.
C17_ResultAtMostOnce ==
    event.type = "finalize" => (Len(pendingComplete) = 1 /\ screen = "camera")

\* C19: a detection showing more than one face is never handed to the
\* verifier of the active challenge, and reporting it leaves the attempt
\* running.
C19_MultipleFacesNotSubmitted ==
    /\ \A i \in DOMAIN submitted : submitted[i].faceCount = 1
    /\ (event.type = "status" /\ event.text = "multipleFaces") =>
          (isVerifying /\ screen = "camera" /\ detectionInterval)

\* two faces were reported in the middle of a blink challenge: one closure
\* was counted before, and frames are submitted again afterwards
C19_Witness ==
    /\ event.type = "status" /\ event.text = "multipleFaces"
    /\ isActive /\ currentChallenge = "blink" /\ blinkCount = 1
    /\ Len(submitted) = 1

\* C20: when a detection model is unavailable, a started attempt issues no
\* challenge: it never starts one, neither first nor as a retry.
C20_NoChallengeWithoutModels ==
    (~detectorLoaded \/ ~meshLoaded) => event.type # "started"

\* C21: every started attempt ends with a Verification Result, even when
\* no verifier ever returns true: the retries of a failed challenge are
\* bounded and the result is then a rejection.
C21_AttemptTerminates == isVerifying ~> (screen = "results")

\* C22: a cycle with insufficient input (no face found by the dense
\* detector) leaves every dimension at a neutral or its last score: no
\* dimension that held a score above 0 before the cycle holds 0 after it.
C22_DropOutNeverZeroes ==
    event.type = "cycle" =>
        \A d \in Dims : event.before[d] > 0 => securityScores[d] > 0

\* C23: every result of AntiSpoofing.analyze lists an attack label for a
\* sub-score exactly when that sub-score is below 0.5, for each of the
\* five sub-scores photo, screen, mask, deepfake and cutout.
C23_LabelIffBelowHalf ==
    (event.type = "antiSpoof" /\ event.result.set) =>
        \A k \in DOMAIN event.result.scores :
            (event.result.scores[k] < 500)
              <=> (\E l \in event.result.attacksDetected : labelScore[l] = k)

\* C24: during a smile challenge whose baseline was established by earlier
\* frames, a submitted coarse frame whose mouth span exceeds 1.15 times
\* that baseline verifies the challenge.
C24_SmileOverBaselineSucceeds ==
    [][(/\ isActive /\ currentChallenge = "smile"
        /\ baseline.set
        /\ Len(submitted') = Len(submitted) + 1
        /\ ~submitted'[Len(submitted')].isHighRes
        /\ 100 * mouthSpan(submitted'[Len(submitted')].landmarks)
              > smileThreshold * baseline.mouthWidth)
       => verified' = verified + 1]_vars

\* C30: while one challenge is followed, a baseline that has been measured
\* stays as it is when further frames are submitted.
C30_BaselineMeasuredOnce ==
    [][(/\ isActive /\ baseline.set
        /\ Len(submitted') = Len(submitted) + 1)
       => baseline' = baseline]_vars

\* C25: on coarse landmarks the blink counter goes up only on a frame that
\* completes a drop and recovery of the eye distance within the last three
\* frames: the middle frame of the window is narrower than the first.
C25_BlinkNeedsDrop ==
    [][(/\ currentChallenge = "blink"
        /\ Len(submitted') = Len(submitted) + 1
        /\ ~submitted'[Len(submitted')].isHighRes
        /\ blinkCount' = blinkCount + 1)
       => LET h == landmarkHistory'
          IN  /\ Len(h) >= 3
              /\ calculateDistance(h[Len(h) - 1][1], h[Len(h) - 1][2])
                    < calculateDistance(h[Len(h) - 2][1], h[Len(h) - 2][2])]_vars

\* C26: with three or more frames of history the temporal score of
\* identical frames (avgDiff 0) and of an avgDiff above 15 is below every
\* score of the band 2..15, and with fewer frames the score is the neutral
\* 0.7.
C26_OutsideBandBelowBand ==
    event.type = "temporal" =>
        IF event.frames < 3
        THEN event.score = 8400
        ELSE (event.avgDiff = 0 \/ event.avgDiff > 180) =>
                \A a \in 24..180 : event.score < temporalBand(a)

\* C27: the eye-region score, the edge score and the naturalness score lie
\* in [0, 1] for every input, the limits of their bands included.
C27_SubScoresInUnitRange ==
    event.type = "subScore" =>
        /\ event.score.num >= 0
        /\ event.score.num <= 1000 * event.score.den

\* C28: the combined score is the sum of 30% active, 25% passive,
\* 25% anti-spoofing, 15% depth and 5% eye reflection, rounded to an
\* integer (a half either way), and no other component enters it.
C28_DocumentedWeights ==
    event.type = "combined" =>
        LET documented == 30 * securityScores.active + 25 * securityScores.passive
                            + 25 * securityScores.antiSpoof
                            + 15 * securityScores.depth
                            + 5 * securityScores.eyeReflection
        IN  100 * event.value - documented \in -50..50

\* the head position verifyHeadTurn reads from the i-th submitted detection
position(i) ==
    IF submitted[i].isHighRes \/ Len(submitted[i].landmarks) < 6 THEN "none"
    ELSE IF isLeft(submitted[i]) THEN "left"
    ELSE IF isRight(submitted[i]) THEN "right"
    ELSE IF isCenter(submitted[i]) THEN "center"
    ELSE "none"

\* the submitted detections show the positions a, b, c, d in this order
inOrder(a, b, c, d) ==
    \E i, j, k, l \in DOMAIN submitted :
        /\ i < j /\ j < k /\ k < l
        /\ position(i) = a /\ position(j) = b
        /\ position(k) = c /\ position(l) = d

\* C29: a head-turn challenge succeeds only when the detections since its
\* start show center, left, center, right in this order, or center, right,
\* center, left.
C29_HeadTurnInOrder ==
    (event.type = "result" /\ event.id = "turnHead" /\ event.success) =>
        \/ inOrder("center", "left", "center", "right")
        \/ inOrder("center", "right", "center", "left")

\* C31: right after a challenge is started, for the first time or as the
\* retry of a failed one, the blink count is 0, no head position is
\* recorded, the landmark history is empty and no baseline is held.
C31_StartResetsGestureState ==
    event.type = "started" =>
        /\ blinkCount = 0
        /\ headTurnStates = NoTurns
        /\ landmarkHistory = <<>>
        /\ ~baseline.set

\* a failed try that had recorded gestures is retried
C31_Witness ==
    /\ event.type = "started" /\ event.afterFailureOf = event.id
    /\ event.progress
    /\ blinkCount = 0 /\ landmarkHistory = <<>>

\* the head positions shown by the dense detections submitted since the
\* challenge started
densePoses == {submitted[i].pose : i \in {j \in DOMAIN submitted : submitted[j].isHighRes}}

\* C32: a head-turn challenge to which dense keypoints showing the head
\* left, centered and right have been submitted has succeeded: it is not
\* still waiting.
C32_DenseHeadTurnSucceeds ==
    ~(/\ isActive /\ currentChallenge = "turnHead"
      /\ {"left", "center", "right"} \subseteq densePoses)

\* the captures handed to the verifier since the challenge started
capturesSubmitted ==
    {submitted[i].capture : i \in {j \in DOMAIN submitted : submitted[j].isHighRes}}

\* C33: a capture of dense keypoints is applied to the verifier once at
\* most: the blink count never exceeds the number of captures submitted
\* since the challenge started.
C33_CaptureAppliedOnce == blinkCount <= Cardinality(capturesSubmitted)

\* C36: at most one FaceMesh inference is pending at any time: an analysis
\* tick that comes while one is in flight does not start a second.
C36_OneInferencePending == inflight <= 1

\* C37: whenever the challenger is active it holds a current challenge
\* descriptor.
C37_ActiveHasDescriptor == isActive => currentChallenge # None

\* C38: the number of completed challenges is always between 0 and the
\* number required, so that the active score of completeVerification is
\* between 0 and 100.
C38_CompletedWithinRequired ==
    /\ completedChallenges >= 0
    /\ completedChallenges <= requiredChallenges

\* C39: the mask sub-score of every anti-spoofing result is between 0.5
\* and 1, and MASK_DETECTED is not among its labels.
C39_MaskNeverDetected ==
    (event.type = "antiSpoof" /\ event.result.set) =>
        /\ event.result.scores.maskScore >= 500
        /\ event.result.scores.maskScore <= 1000
        /\ "MASK_DETECTED" \notin event.result.attacksDetected

\* the required number of challenges is completed in an attempt that was
\* started after an earlier one
C38_Witness ==
    /\ completedChallenges = requiredChallenges
    /\ clicks >= 2
    /\ event.type = "result" /\ event.success

\* a face whose relief is too flat and whose nose ratio is within the
\* limits was analysed: mask score 0.75, no label
C39_Witness ==
    /\ event.type = "antiSpoof" /\ ~event.skipped
    /\ event.depthResult.set /\ event.depthResult.face
    /\ event.depthResult.features.zVariance = 50
    /\ event.result.scores.maskScore = 750
    /\ "MASK_DETECTED" \notin event.result.attacksDetected

\* C34: whenever the anti-spoofing fusion evaluates in an analysis cycle, the
\* depth result and the passive result it is given were computed in that same
\* cycle, never returned from a cache filled in an earlier cycle
C34_FusionGivenCurrentCycle ==
    (event.type = "throttle" /\ event.calls.antiSpoof.fresh) =>
        /\ event.given.depth = event.cycle
        /\ event.given.passive = event.cycle

\* an analyzer's period: a fresh evaluation is due once in that many calls
period ==
    [depth |-> 2, passive |-> 2, microExpression |-> 2, antiSpoof |-> 3,
     eyeReflection |-> 3]

\* C35: a call that skips its frame returns the result of the analyzer's most
\* recent evaluation and changes neither its cache nor its history, and fewer
\* calls in a row are skipped than the analyzer's period
C35_SkippedCallReturnsLastEvaluation ==
    event.type = "throttle" =>
        \A a \in Analyzers :
            (event.calls[a].called /\ ~event.calls[a].fresh) =>
                /\ event.calls[a].returned = event.calls[a].last
                /\ ~event.calls[a].changed
                /\ event.calls[a].run < period[a]

====
